---- MODULE Spec2Model ----
(***************************************************************************)
(* A model of psflib.js (paperscissorsfun): the Kit pipeline               *)
(* generate -> build -> pack -> render over a heap of Components, the      *)
(* Measurement / MeasurementPair value layer and the AffineTransformation  *)
(* matrices.  In the pipeline lengths are whole meters; the value layer    *)
(* computes with exact fractions.                                          *)
(***************************************************************************)
EXTENDS Integers, Sequences, FiniteSets, TLC

(***************************************************************************)
(* Bounds of the model.                                                    *)
(***************************************************************************)
\* addPiece and addSubComponent calls per build()
MaxBuildCalls == 4
\* Measurement values and bare numbers: n/d with |n| <= MaxValue, d in {1, 2}
MaxValue == 2
\* coordinates of MeasurementPairs: 0..MaxCoord meters
MaxCoord == 1
\* pieces a spec string is written with
MaxChunks == 5
\* items of a spec list
MaxItems == 4
\* transformations composed into one
MaxFactors == 4
\* generate() calls on one Kit, where a Kit is used again
MaxGenerateCalls == 2
\* addPiece and addSubComponent calls per build() of a Kit that is used again
MaxRebuildCalls == 2
\* objects the calls on value objects add to those they start from
MaxNewObjects == 2

(***************************************************************************)
(* Inputs.                                                                 *)
(***************************************************************************)
\* format option values of the Kit classes: names of jsPDF page formats
Formats == { "a4" }
\* scale option values of the Kit classes
Scales == { "1:10" }
\* pdf.internal.pageSize of a jsPDF object of this format: [width, height]
\* in whole PDF "mm"
PageSize(format) ==
  CASE format = "letter" -> <<216, 279>>
    [] format = "a4" -> <<210, 297>>
\* ConversionFactors.scale(name).ratio as numerator:denominator: an entry
\* of the scale table, or the two numbers of "numerator:denominator"
ScaleRatio(name) ==
  CASE name = "fullSize" -> <<1, 1>>
    [] name = "HO" -> <<10, 871>>
    [] name = "1:10" -> <<1, 10>>
\* a component class without a getExtent override has this extent
NoExtent == <<>>
\* the component classes build() instantiates, one object each, by their
\* extents (width, height in world meters)
Shapes == << <<1, 1>>, <<2, 1>>, <<3, 3>>, NoExtent >>
NumComps == Len(Shapes)
\* where the class of parent puts the sub-component child (world meters)
PositionIn(parent, child) == <<parent, child>>

(***************************************************************************)
(* AffineTransformation: 3x3 matrices as tuples of rows.                   *)
(***************************************************************************)
NullXform == <<>>

IsXform(m) == Len(m) = 3

Resize(factor) == << <<factor, 0, 0>>, <<0, factor, 0>>, <<0, 0, 1>> >>

Identity == << <<1, 0, 0>>, <<0, 1, 0>>, <<0, 0, 1>> >>

Translate(dx, dy) == << <<1, 0, dx>>, <<0, 1, dy>>, <<0, 0, 1>> >>

ReflectAroundXAxis == << <<1, 0, 0>>, <<0, -1, 0>>, <<0, 0, 1>> >>

\* what stands for a transformation whose constructor threw
XformThrew == << "Error" >>

ROT90 == 90
ROT180 == 180
ROT270 == 270

\* Rotate with the quarter turn taken clockwise
RotateClockwise(which) ==
  IF which = ROT90 THEN << <<0, 1, 0>>, <<-1, 0, 0>>, <<0, 0, 1>> >>
  ELSE IF which = ROT180 THEN << <<-1, 0, 0>>, <<0, -1, 0>>, <<0, 0, 1>> >>
  ELSE IF which = ROT270 THEN << <<0, 1, 0>>, <<-1, 0, 0>>, <<0, 0, 1>> >>
  ELSE XformThrew

\* Rotate taking the angles 0 and 360 as the full turn
RotateFullTurn(which) ==
  IF which = ROT90 THEN << <<0, -1, 0>>, <<1, 0, 0>>, <<0, 0, 1>> >>
  ELSE IF which = ROT180 THEN << <<-1, 0, 0>>, <<0, -1, 0>>, <<0, 0, 1>> >>
  ELSE IF which = ROT270 THEN << <<0, 1, 0>>, <<-1, 0, 0>>, <<0, 0, 1>> >>
  ELSE IF which \in { 0, 360 } THEN << <<1, 0, 0>>, <<0, 1, 0>>, <<0, 0, 1>> >>
  ELSE XformThrew

Rotate(which) ==
  IF which = ROT90 THEN << <<0, -1, 0>>, <<1, 0, 0>>, <<0, 0, 1>> >>
  ELSE IF which = ROT180 THEN << <<-1, 0, 0>>, <<0, -1, 0>>, <<0, 0, 1>> >>
  ELSE IF which = ROT270 THEN << <<0, 1, 0>>, <<-1, 0, 0>>, <<0, 0, 1>> >>
  ELSE XformThrew

\* compose with the last row computed from a's second row
ComposeRowSlip(a, b) ==
  [i \in 1..3 |-> [j \in 1..3 |->
     LET r == IF i = 3 THEN 2 ELSE i
     IN  a[r][1] * b[1][j] + a[r][2] * b[2][j] + a[r][3] * b[3][j]]]

ComposeSwapped(a, b) ==
  [i \in 1..3 |-> [j \in 1..3 |->
     b[i][1] * a[1][j] + b[i][2] * a[2][j] + b[i][3] * a[3][j]]]

\* a.compose(b): the matrix product a x b
Compose(a, b) ==
  [i \in 1..3 |-> [j \in 1..3 |->
     a[i][1] * b[1][j] + a[i][2] * b[2][j] + a[i][3] * b[3][j]]]

\* xform.applyToPoint(pt): matrix x [x, y, 1], as the bare (x, y)
ApplyToPoint(a, pt) ==
  << a[1][1] * pt[1] + a[1][2] * pt[2] + a[1][3],
     a[2][1] * pt[1] + a[2][2] * pt[2] + a[2][3] >>

(***************************************************************************)
(* State.                                                                  *)
(***************************************************************************)
VARIABLES
  pc,           \* where Kit.generate() is: idle, build, pack, render, done, threw
  phases,       \* the phases generate() has entered, in order
  comps,        \* the Component objects: extent, _positionXform, _subComponents
  pieceList,    \* Kit._pieceList: Piece objects
  pageList,     \* Kit._pageList: each Page's _positionedPieceList (piece indices)
  notYetPacked, \* pack()'s local list (piece indices)
  bp,           \* pack()'s latest BinPack: as configured, and its result
  pageSize,     \* <<_pageWidth, _pageHeight>> in world meters
  masterXform,  \* the transform generate() hands to render()
  first,        \* render()'s local flag
  pageIdx,      \* render()'s position in the page list
  pieceIdx,     \* render()'s position in the current page
  pdf           \* the calls the jsPDF object has received

kitVars == << pc, phases, comps, pieceList, pageList, notYetPacked, bp,
              pageSize, masterXform, first, pageIdx, pieceIdx, pdf >>

\* One call on a value object (a Measurement, a MeasurementPair): the
\* receiver (for a constructor call, its first argument), the remaining
\* arguments, the method called and what the call returned or that it threw.
VARIABLES recv, args, method, result

valVars == << recv, args, method, result >>

\* A transformation under construction: the matrix so far, the
\* constructions composed into it (the latest first), a point, and the
\* point's image under the transformations applied one after the other.
VARIABLES composed, factors, pt, img

xfVars == << composed, factors, pt, img >>

\* Kit._options, what getDefaultOptions() of the Kit's class returns, and
\* the userOptions of the generate() calls made so far.
VARIABLES options, defaultOptions, optionCalls

optVars == << options, defaultOptions, optionCalls >>

\* The program that uses the Kit: the generate() calls it still makes, the
\* userOptions it may pass, and the addPiece and addSubComponent calls its
\* build() makes at most.
VARIABLES generateCalls, userChoices, buildCalls

useVars == << generateCalls, userChoices, buildCalls >>

\* The value objects constructed so far, where calls are made on objects.
VARIABLE objects

vars == << kitVars, valVars, xfVars, optVars, useVars, objects >>

(***************************************************************************)
(* Option dictionaries: functions from the names present to their values.  *)
(***************************************************************************)
NoOptions == << >>

\* mergeDicts leaving alone every key baseDict already has
MergeDictsKeepingBase(baseDict, newEntries) ==
  [key \in DOMAIN baseDict \cup DOMAIN newEntries |->
     IF key \in DOMAIN baseDict THEN baseDict[key] ELSE newEntries[key]]

\* mergeDicts(baseDict, newEntries): baseDict afterwards
MergeDicts(baseDict, newEntries) ==
  [key \in DOMAIN baseDict \cup DOMAIN newEntries |->
     IF key \in DOMAIN newEntries THEN newEntries[key] ELSE baseDict[key]]

\* the options the Kit constructor starts from, for a class named Kit
BuiltInOptions ==
  [format |-> "letter", scale |-> "HO", pdfFileName |-> "Kit.pdf"]

\* kit.get(optionName) on these options; "undefined" for a missing name
Get(dict, optionName) ==
  IF optionName \in DOMAIN dict THEN dict[optionName] ELSE "undefined"

NoBp ==
  [ binWidth |-> 0, binHeight |-> 0, sort |-> <<>>, added |-> <<>>,
    positioned |-> <<>>, unpositioned |-> <<>>, called |-> FALSE ]

SeqTo(n) == [i \in 1..n |-> i]

\* new Component(...) of class k: the base constructor's fields
Component(k) ==
  [ extent |-> Shapes[k],
    positionXform |-> NullXform,
    subComponents |-> <<>> ]

\* new Kit() of a class whose getDefaultOptions() returns defaults
KitConstructor(defaults) ==
  /\ defaultOptions = defaults
  /\ options = MergeDicts(BuiltInOptions, defaults)
  /\ optionCalls = << >>

\* the program calls generate() calls times, passing one of choices, and
\* its build() makes up to perBuild calls
Use(calls, choices, perBuild) ==
  /\ generateCalls = calls
  /\ userChoices = choices
  /\ buildCalls = perBuild

\* the fields generate() and the phase methods work on, before the first
\* generate() call
KitIdle ==
  /\ pc = "idle"
  /\ phases = <<>>
  /\ comps = <<>>
  /\ pieceList = <<>>
  /\ pageList = <<>>
  /\ notYetPacked = <<>>
  /\ bp = NoBp
  /\ pageSize = <<0, 0>>
  /\ masterXform = NullXform
  /\ first = TRUE
  /\ pageIdx = 0
  /\ pieceIdx = 0
  /\ pdf = <<>>

\* a Kit whose class sets the format and the scale, generated once without
\* user options
KitInit ==
  /\ KitIdle
  /\ \E fmt \in Formats, sc \in Scales :
       KitConstructor([format |-> fmt, scale |-> sc])
  /\ Use(1, { NoOptions }, MaxBuildCalls)

(***************************************************************************)
(* Kit.generate(): options, page size, master transform, then build().     *)
(***************************************************************************)
Call(op, piece, comp, xform) ==
  [op |-> op, piece |-> piece, comp |-> comp, xform |-> xform]

\* shrink.compose(flip), the shift left out
MasterXformUnshifted(ratio1000, pageHeight) ==
  Compose(Resize(ratio1000), ReflectAroundXAxis)

\* shrink.compose(shift).compose(flip)
MasterXform(ratio1000, pageHeight) ==
  Compose(Compose(Resize(ratio1000), Translate(0, pageHeight)), ReflectAroundXAxis)

GeneratePhasesRenderFirst == << "build", "render", "pack" >>

GeneratePhasesPackTwice == << "build", "pack", "pack", "render" >>

\* the phase methods generate() calls, in the order of its statements
GeneratePhases == << "build", "pack", "render" >>

\* what generate() does once its k-th phase call has returned
PhaseAfter(k) == IF k < Len(GeneratePhases) THEN GeneratePhases[k + 1] ELSE "done"

\* generate() calls the phase method p (or returns), the jsPDF object having
\* received the calls of log: pack() starts on this._pieceList, render() with
\* createAnnotation and var first = true
Enter(p, log) ==
  /\ pc' = p
  /\ phases' = IF p = "done" THEN phases ELSE Append(phases, p)
  /\ notYetPacked' = IF p = "pack" THEN SeqTo(Len(pieceList)) ELSE notYetPacked
  /\ bp' = IF p = "pack" THEN NoBp ELSE bp
  /\ pdf' = IF p = "render"
              THEN Append(log, Call("createAnnotation", 0, 0, NullXform))
              ELSE log
  /\ first' = IF p = "render" THEN TRUE ELSE first
  /\ pageIdx' = IF p = "render" THEN 0 ELSE pageIdx
  /\ pieceIdx' = IF p = "render" THEN 0 ELSE pieceIdx

\* kit.generate(userOptions), up to its call of build(); a call is made
\* when no earlier one is under way
Generate(userOptions) ==
  /\ pc \in { "idle", "done", "threw" }
  /\ generateCalls > 0
  /\ generateCalls' = generateCalls - 1
  /\ options' = MergeDicts(options, userOptions)
  /\ optionCalls' = Append(optionCalls, userOptions)
  /\ LET fmt == PageSize(options'.format)
         sc == ScaleRatio(options'.scale)
         ratio1000 == (1000 * sc[1]) \div sc[2]          \* 1000 * ratio
         width == (fmt[1] * sc[2]) \div (1000 * sc[1])   \* rawWidth * adjust
         height == (fmt[2] * sc[2]) \div (1000 * sc[1])  \* rawHeight * adjust
     IN /\ pageSize' = <<width, height>>
        /\ masterXform' = MasterXform(ratio1000, height)
  /\ pieceList' = <<>>
  \* this.build(): its first statements construct the components
  /\ comps' = [k \in 1..NumComps |-> Component(k)]
  /\ pc' = GeneratePhases[1]
  /\ phases' = << GeneratePhases[1] >>
  \* new jsPDF(...); the locals of an earlier pack() and render() are gone
  /\ pdf' = <<>>
  /\ notYetPacked' = <<>>
  /\ bp' = NoBp
  /\ first' = TRUE
  /\ pageIdx' = 0
  /\ pieceIdx' = 0
  /\ UNCHANGED << pageList, defaultOptions, userChoices, buildCalls >>

(***************************************************************************)
(* The calls build() makes: addSubComponent and addPiece.                  *)
(***************************************************************************)
NumSubs == LET RECURSIVE Sum(_)
               Sum(k) == IF k = 0 THEN 0 ELSE Len(comps[k].subComponents) + Sum(k - 1)
           IN Sum(Len(comps))

\* subComponent._setPositionXform(position)
SetPositionXform(heap, c, position) ==
  [heap EXCEPT ![c].positionXform = Translate(position[1], position[2])]

\* parent.addSubComponent(child, position); build() puts a component only
\* under a component constructed before it
AddSubComponent(parent, child, position) ==
  /\ pc = "build"
  /\ NumSubs + Len(pieceList) < buildCalls
  /\ parent < child
  /\ comps' = [SetPositionXform(comps, child, position)
                 EXCEPT ![parent].subComponents = Append(@, child)]
  /\ UNCHANGED << pc, phases, pieceList, pageList, notYetPacked, bp, pageSize,
                  masterXform, first, pageIdx, pieceIdx, pdf >>

NoPosition == <<>>

\* a Piece that is given the origin as its position
PieceAtOrigin(c) ==
  [ width |-> comps[c].extent[1],
    height |-> comps[c].extent[2],
    area |-> comps[c].extent[1] * comps[c].extent[2],
    component |-> c,
    position |-> << 0, 0 >> ]

\* new Piece(comp), for a component whose getExtent() is overridden
Piece(c) ==
  [ width |-> comps[c].extent[1],
    height |-> comps[c].extent[2],
    area |-> comps[c].extent[1] * comps[c].extent[2],
    component |-> c,
    position |-> NoPosition ]

\* kit.addPiece(comp): Component.getExtent() throws unless overridden
AddPiece(c) ==
  /\ pc = "build"
  /\ NumSubs + Len(pieceList) < buildCalls
  /\ IF comps[c].extent = NoExtent
       THEN pc' = "threw" /\ pieceList' = pieceList
       ELSE pc' = pc /\ pieceList' = Append(pieceList, Piece(c))
  /\ UNCHANGED << phases, comps, pageList, notYetPacked, bp, pageSize,
                  masterXform, first, pageIdx, pieceIdx, pdf >>

\* build() throws: Kit.build() itself does, and so may an override
BuildThrows ==
  /\ pc = "build"
  /\ pc' = "threw"
  /\ UNCHANGED << phases, comps, pieceList, pageList, notYetPacked, bp, pageSize,
                  masterXform, first, pageIdx, pieceIdx, pdf >>

\* build() returns and generate() goes on, this._pageList left as it is
BuildReturnsKeepingPages ==
  /\ pc = "build"
  /\ pageList' = pageList
  /\ Enter(PhaseAfter(Len(phases)), pdf)
  /\ UNCHANGED << comps, pieceList, pageSize, masterXform >>

\* build() returns; this._pageList = []; generate() goes on
BuildReturns ==
  /\ pc = "build"
  /\ pageList' = <<>>
  /\ Enter(PhaseAfter(Len(phases)), pdf)
  /\ UNCHANGED << comps, pieceList, pageSize, masterXform >>

(***************************************************************************)
(* The placement routine (bin-pack.js, an external collaborator): every    *)
(* outcome its contract allows.  The candidates are taken in comparator    *)
(* order; the positioned ones lie inside the bin without overlapping; the  *)
(* rest are returned as unpositioned; and a candidate that fits an empty   *)
(* bin is never the reason for an empty result.                            *)
(***************************************************************************)
\* the indices of items, ordered as Array.sort orders them under cmp
SortedOrder(cmp, n) ==
  CHOOSE o \in [1..n -> 1..n] :
    /\ \A a, b \in 1..n : a # b => o[a] # o[b]
    /\ \A a, b \in 1..n : a < b =>
         \/ cmp[o[a]][o[b]] < 0
         \/ cmp[o[a]][o[b]] = 0 /\ o[a] < o[b]

Overlap(it1, p1, it2, p2) ==
  /\ p1[1] < p2[1] + it2.width
  /\ p2[1] < p1[1] + it1.width
  /\ p1[2] < p2[2] + it2.height
  /\ p2[2] < p1[2] + it1.height

\* the places of the bin where item i lies inside it and off the placed ones
FreePlaces(binWidth, binHeight, items, placed, i) ==
  { xy \in (0..binWidth) \X (0..binHeight) :
      /\ xy[1] + items[i].width <= binWidth
      /\ xy[2] + items[i].height <= binHeight
      /\ \A j \in DOMAIN placed : ~Overlap(items[i], xy, items[j], placed[j]) }

\* the candidates seq[k..] placed one after the other, each at the lowest and
\* then leftmost free place; a candidate without a free place is left out
RECURSIVE BottomLeft(_, _, _, _, _, _)
BottomLeft(binWidth, binHeight, items, seq, k, placed) ==
  IF k > Len(seq)
    THEN placed
    ELSE LET free == FreePlaces(binWidth, binHeight, items, placed, seq[k])
             at == CHOOSE xy \in free : \A o \in free :
                     xy[2] < o[2] \/ (xy[2] = o[2] /\ xy[1] <= o[1])
         IN BottomLeft(binWidth, binHeight, items, seq, k + 1,
                       IF free = {} THEN placed
                       ELSE [j \in DOMAIN placed \cup {seq[k]} |->
                               IF j = seq[k] THEN at ELSE placed[j]])

BinPack(binWidth, binHeight, cmp, items) ==
  LET n == Len(items)
      order == SortedOrder(cmp, n)
      Fit == { i \in 1..n : items[i].width <= binWidth /\ items[i].height <= binHeight }
      Placement(P) ==
        BottomLeft(binWidth, binHeight, items, SelectSeq(order, LAMBDA i : i \in P), 1, <<>>)
      Result(P) ==
        LET in == SelectSeq(order, LAMBDA i : i \in P)
            out == SelectSeq(order, LAMBDA i : i \notin P)
            pl == Placement(P)
        IN [ positioned |-> [k \in 1..Len(in) |->
                               [x |-> pl[in[k]][1], y |-> pl[in[k]][2], datum |-> in[k]]],
             unpositioned |-> [k \in 1..Len(out) |-> [datum |-> out[k]]] ]
  IN { Result(P) : P \in { Q \in SUBSET Fit :
                             /\ Fit # {} => Q # {}
                             /\ DOMAIN Placement(Q) = Q } }

(***************************************************************************)
(* Kit.pack(): one BinPack per loop iteration, one Page per BinPack.       *)
(***************************************************************************)
\* what pack() hands to bp.addAll: the Piece objects not yet packed
Candidates == [k \in 1..Len(notYetPacked) |-> pieceList[notYetPacked[k]]]

\* a comparator that puts the smallest area first
AreaComparatorAscending(items) ==
  [i \in 1..Len(items) |-> [j \in 1..Len(items) |-> items[i].area - items[j].area]]

\* bp.sort((a, b) => b.area - a.area), evaluated on every pair of candidates
AreaComparator(items) ==
  [i \in 1..Len(items) |-> [j \in 1..Len(items) |-> items[j].area - items[i].area]]

\* the piece a record of the BinPack result stands for (record.datum)
Datum(rec) == notYetPacked[rec.datum]

TooBigNever(r) == FALSE

\* if (bp.positioned.length == 0) throw
TooBig(r) == Len(r.positioned) = 0

\* every positioned record written, and the origin written to the others
PositionedOrReset(pieces, r) ==
  [i \in 1..Len(pieces) |->
     [pieces[i] EXCEPT !.position =
        IF \E k \in 1..Len(r.positioned) : Datum(r.positioned[k]) = i
          THEN LET k == CHOOSE k \in 1..Len(r.positioned) : Datum(r.positioned[k]) = i
               IN <<r.positioned[k].x, r.positioned[k].y>>
          ELSE <<0, 0>>]]

\* piece._position = point(worldM([record.x, 'm']), worldM([record.y, 'm']))
Positioned(pieces, r) ==
  [i \in 1..Len(pieces) |->
     IF \E k \in 1..Len(r.positioned) : Datum(r.positioned[k]) = i
       THEN [pieces[i] EXCEPT !.position =
               LET k == CHOOSE k \in 1..Len(r.positioned) : Datum(r.positioned[k]) = i
               IN <<r.positioned[k].x, r.positioned[k].y>>]
       ELSE pieces[i]]

\* a Page of the pieces that were left unpositioned
NewPageOfTheRest(r) == [k \in 1..Len(r.unpositioned) |-> Datum(r.unpositioned[k])]

\* the new Page: page.addPositionedPiece(piece) for every positioned record
NewPage(r) == [k \in 1..Len(r.positioned) |-> Datum(r.positioned[k])]

StillUnpackedNone(r) == <<>>

StillUnpackedAll(r) == notYetPacked

\* notYetPacked = []; then a push for every unpositioned record
StillUnpacked(r) == [k \in 1..Len(r.unpositioned) |-> Datum(r.unpositioned[k])]

PackIteration ==
  /\ pc = "pack"
  /\ Len(notYetPacked) > 0
  /\ \E r \in BinPack(pageSize[1], pageSize[2], AreaComparator(Candidates), Candidates) :
       /\ bp' = [ binWidth |-> pageSize[1], binHeight |-> pageSize[2],
                  sort |-> AreaComparator(Candidates), added |-> notYetPacked,
                  positioned |-> r.positioned, unpositioned |-> r.unpositioned,
                  called |-> TRUE ]
       /\ IF TooBig(r)
            THEN /\ pc' = "threw"
                 /\ UNCHANGED << pieceList, pageList, notYetPacked >>
            ELSE /\ pc' = pc
                 /\ pieceList' = Positioned(pieceList, r)
                 /\ pageList' = Append(pageList, NewPage(r))
                 /\ notYetPacked' = StillUnpacked(r)
  /\ UNCHANGED << phases, comps, pageSize, masterXform, first, pageIdx, pieceIdx, pdf >>

\* the loop is over: pack() returns, and generate() goes on
PackReturns ==
  /\ pc = "pack"
  /\ Len(notYetPacked) = 0
  /\ Enter(PhaseAfter(Len(phases)), pdf)
  /\ UNCHANGED << comps, pieceList, pageList, pageSize, masterXform >>

(***************************************************************************)
(* Kit.render() and Kit._renderTreeNodes().  A component's render(pen)     *)
(* override draws the component's own outline: one lines() call on the     *)
(* jsPDF object, made through a DrawingPen that holds currentXform.        *)
(***************************************************************************)
RECURSIVE RenderTreeNodesPostOrder(_, _, _, _), RenderSubComponentsPostOrder(_, _, _, _, _)

RenderSubComponentsPostOrder(heap, xform, subs, k, piece) ==
  IF k > Len(subs)
    THEN <<>>
    ELSE RenderTreeNodesPostOrder(heap, xform, subs[k], piece)
           \o RenderSubComponentsPostOrder(heap, xform, subs, k + 1, piece)

RenderTreeNodesPostOrder(heap, xform, component, piece) ==
  LET currentXform == Compose(xform, heap[component].positionXform)
  IN RenderSubComponentsPostOrder(heap, currentXform, heap[component].subComponents, 1, piece)
       \o << Call("lines", piece, component, currentXform) >>

RECURSIVE RenderTreeNodes(_, _, _, _), RenderSubComponents(_, _, _, _, _)

\* for (const subComponent of component._subComponents) this._renderTreeNodes(...)
RenderSubComponents(heap, xform, subs, k, piece) ==
  IF k > Len(subs)
    THEN <<>>
    ELSE RenderTreeNodes(heap, xform, subs[k], piece)
           \o RenderSubComponents(heap, xform, subs, k + 1, piece)

\* this._renderTreeNodes(pdf, xform, component): the calls the jsPDF object gets
RenderTreeNodes(heap, xform, component, piece) ==
  LET currentXform == Compose(xform, heap[component].positionXform)
  IN << Call("lines", piece, component, currentXform) >>
       \o RenderSubComponents(heap, currentXform, heap[component].subComponents, 1, piece)

AdvanceAlways(isFirst) == << Call("addPage", 0, 0, NullXform) >>

\* if (first) { first = false } else { this._pdf.addPage(...) }
Advance(isFirst) == IF isFirst THEN <<>> ELSE << Call("addPage", 0, 0, NullXform) >>

\* the loop over the page list takes its next page
RenderPage ==
  /\ pc = "render"
  /\ pageIdx < Len(pageList)
  /\ pageIdx > 0 => pieceIdx = Len(pageList[pageIdx])
  /\ pdf' = pdf \o Advance(first)
  /\ first' = FALSE
  /\ pageIdx' = pageIdx + 1
  /\ pieceIdx' = 0
  /\ UNCHANGED << pc, phases, comps, pieceList, pageList, notYetPacked, bp, pageSize,
                  masterXform >>

\* the loop over page.allPieces() takes its next piece
RenderPiece ==
  /\ pc = "render"
  /\ pageIdx > 0
  /\ pieceIdx < Len(pageList[pageIdx])
  /\ LET piece == pageList[pageIdx][pieceIdx + 1]
         component == pieceList[piece].component
         heap == SetPositionXform(comps, component, pieceList[piece].position)
     IN /\ comps' = heap
        /\ pdf' = pdf \o RenderTreeNodes(heap, masterXform, component, piece)
  /\ pieceIdx' = pieceIdx + 1
  /\ UNCHANGED << pc, phases, pieceList, pageList, notYetPacked, bp, pageSize,
                  masterXform, first, pageIdx >>

\* the loops are over: this._pdf.save(pdfFileName); render() returns, and
\* generate() goes on
RenderSave ==
  /\ pc = "render"
  /\ pageIdx = Len(pageList)
  /\ pageIdx > 0 => pieceIdx = Len(pageList[pageIdx])
  /\ Enter(PhaseAfter(Len(phases)), Append(pdf, Call("save", 0, 0, NullXform)))
  /\ UNCHANGED << comps, pieceList, pageList, pageSize, masterXform >>

(***************************************************************************)
(* JavaScript values.  A number is the fraction <<n, d>> in lowest terms   *)
(* with d > 0; every other value is a record tagged by its kind.           *)
(***************************************************************************)
Abs(n) == IF n < 0 THEN -n ELSE n

RECURSIVE GCD(_, _)
GCD(a, b) == IF b = 0 THEN a ELSE GCD(b, a % b)

\* not-a-number: the fraction without a denominator
NaN == << 0, 0 >>

Rat(n, d) ==
  IF d = 0 THEN NaN
  ELSE LET s == IF d < 0 THEN -1 ELSE 1
           g == GCD(Abs(n), Abs(d))
       IN  << (s * n) \div g, (s * d) \div g >>

Zero == Rat(0, 1)

RatPlus(a, b) == Rat(a[1] * b[2] + b[1] * a[2], a[2] * b[2])
RatMinus(a, b) == Rat(a[1] * b[2] - b[1] * a[2], a[2] * b[2])
RatTimes(a, b) == Rat(a[1] * b[1], a[2] * b[2])
\* a / b for b # 0
RatOver(a, b) == Rat(a[1] * b[2], a[2] * b[1])
\* the comparisons, all false of NaN
RatLess(a, b) == a[1] * b[2] < b[1] * a[2]
RatEqual(a, b) == a # NaN /\ a = b

Undefined == [kind |-> "undefined"]
\* a call that ended in `throw new Error(...)`
Threw == [kind |-> "Error"]
Number(v) == [kind |-> "number", value |-> v]
Boolean(b) == [kind |-> "boolean", truth |-> b]
String(t) == [kind |-> "string", text |-> t]
Array(items) == [kind |-> "Array", items |-> items]

WORLD == "world"
PRINTED == "printed"
Frames == { WORLD, PRINTED }

(***************************************************************************)
(* Strings that are parsed are sequences of characters.                    *)
(***************************************************************************)
Digits == { "0", "1", "2", "3", "4", "5", "6", "7", "8", "9" }

LowerCase ==
  { "a", "b", "c", "d", "e", "f", "g", "h", "i", "j", "k", "l", "m",
    "n", "o", "p", "q", "r", "s", "t", "u", "v", "w", "x", "y", "z" }

UpperCase ==
  { "A", "B", "C", "D", "E", "F", "G", "H", "I", "J", "K", "L", "M",
    "N", "O", "P", "Q", "R", "S", "T", "U", "V", "W", "X", "Y", "Z" }

\* /[0123456789\.\+\-]/
NumberChars == Digits \cup { ".", "+", "-" }
\* /[a-zA-Z\'\"\-]/
UnitChars == LowerCase \cup UpperCase \cup { "'", "\"", "-" }
\* /\s/
WhiteChars == { " ", "\t", "\n" }

DigitValue(c) ==
  CASE c = "0" -> 0 [] c = "1" -> 1 [] c = "2" -> 2 [] c = "3" -> 3
    [] c = "4" -> 4 [] c = "5" -> 5 [] c = "6" -> 6 [] c = "7" -> 7
    [] c = "8" -> 8 [] c = "9" -> 9

IsDigits(chars) == \A i \in 1..Len(chars) : chars[i] \in Digits

RECURSIVE DigitsValue(_)
DigitsValue(chars) ==
  IF chars = << >>
  THEN 0
  ELSE 10 * DigitsValue(SubSeq(chars, 1, Len(chars) - 1))
         + DigitValue(chars[Len(chars)])

RECURSIVE Pow10(_)
Pow10(n) == IF n = 0 THEN 1 ELSE 10 * Pow10(n - 1)

RECURSIVE Trim(_)
Trim(chars) ==
  IF chars = << >> THEN chars
  ELSE IF Head(chars) \in WhiteChars THEN Trim(Tail(chars))
  ELSE IF chars[Len(chars)] \in WhiteChars
       THEN Trim(SubSeq(chars, 1, Len(chars) - 1))
  ELSE chars

\* digits, with at most one "." among them and a digit on one side of it
UnsignedNumber(chars) ==
  LET dots == { i \in 1..Len(chars) : chars[i] = "." }
  IN  IF Cardinality(dots) > 1 THEN NaN
      ELSE IF dots = { }
           THEN IF chars # << >> /\ IsDigits(chars)
                THEN Rat(DigitsValue(chars), 1)
                ELSE NaN
      ELSE LET i == CHOOSE j \in dots : TRUE
               int == SubSeq(chars, 1, i - 1)
               frac == SubSeq(chars, i + 1, Len(chars))
           IN  IF \/ ~IsDigits(int) \/ ~IsDigits(frac)
                  \/ (int = << >> /\ frac = << >>)
               THEN NaN
               ELSE Rat(DigitsValue(int) * Pow10(Len(frac)) + DigitsValue(frac),
                        Pow10(Len(frac)))

\* Number(string), also the conversion `==` applies to a string: decimal
\* literals only (the exponent, hexadecimal and Infinity forms need letters,
\* which no number token holds)
ToNumber(chars) ==
  LET t == Trim(chars)
  IN  IF t = << >> THEN Zero
      ELSE IF Head(t) = "-" THEN RatMinus(Zero, UnsignedNumber(Tail(t)))
      ELSE IF Head(t) = "+" THEN UnsignedNumber(Tail(t))
      ELSE UnsignedNumber(t)

\* how far the characters of one class run from index on
RECURSIVE MatchLength(_, _, _)
MatchLength(input, index, class) ==
  IF index <= Len(input) /\ input[index] \in class
  THEN 1 + MatchLength(input, index + 1, class)
  ELSE 0

RECURSIVE TokenizeFrom(_, _, _)
TokenizeFrom(input, index, tokens) ==
  IF index > Len(input) THEN Array(tokens)
  ELSE LET number == MatchLength(input, index, NumberChars)
           units == MatchLength(input, index, UnitChars)
           whitespace == MatchLength(input, index, WhiteChars)
           Token(n) == String(SubSeq(input, index, index + n - 1))
       IN  IF number > 0
           THEN TokenizeFrom(input, index + number, Append(tokens, Token(number)))
           ELSE IF units > 0
           THEN TokenizeFrom(input, index + units, Append(tokens, Token(units)))
           ELSE IF whitespace > 0
           THEN TokenizeFrom(input, index + whitespace, tokens)
           ELSE Threw

\* _tokenize: the list of tokens, or a throw
Tokenize(input) == TokenizeFrom(input, 1, << >>)

(***************************************************************************)
(* ConversionFactors.unit.  Names are sequences of characters.  The tables *)
(* hold the entries from 10^-6 m to the league; the entries left out       *)
(* (fermi, angstrom, astronomical unit, parsec, light-year, and the SI     *)
(* prefixes beyond mega and micro) have factors that 32-bit fractions do   *)
(* not hold, and the names with a non-ASCII letter are left out too.      *)
(***************************************************************************)
INCH == Rat(254, 10000)
FOOT == RatTimes(Rat(12, 1), INCH)
YARD == RatTimes(Rat(3, 1), FOOT)
PT == RatOver(INCH, Rat(72, 1))
PICA == RatOver(INCH, Rat(6, 1))
BARLEYCORN == RatOver(INCH, Rat(3, 1))
CHAIN == RatTimes(Rat(22, 1), YARD)
FURLONG == RatTimes(Rat(10, 1), CHAIN)
ROD == RatTimes(Rat(25, 100), CHAIN)
LINK == RatTimes(Rat(1, 100), CHAIN)
CUBIT == RatTimes(Rat(18, 1), INCH)
FATHOM == RatTimes(Rat(6, 1), FOOT)
MILE == RatTimes(Rat(5280, 1), FOOT)
LEAGUE == RatTimes(Rat(5280, 1), YARD)

LONG_PREFIX_TABLE ==
  (<< "m", "e", "g", "a" >> :> Rat(1000000, 1))
  @@ (<< "k", "i", "l", "o" >> :> Rat(1000, 1))
  @@ (<< "h", "e", "c", "t", "o" >> :> Rat(100, 1))
  @@ (<< "d", "e", "c", "a" >> :> Rat(10, 1))
  @@ (<< >> :> Rat(1, 1))
  @@ (<< "d", "e", "c", "i" >> :> Rat(1, 10))
  @@ (<< "c", "e", "n", "t", "i" >> :> Rat(1, 100))
  @@ (<< "m", "i", "l", "l", "i" >> :> Rat(1, 1000))
  @@ (<< "m", "i", "c", "r", "o" >> :> Rat(1, 1000000))

SHORT_PREFIX_TABLE ==
  (<< "M" >> :> Rat(1000000, 1))
  @@ (<< "k" >> :> Rat(1000, 1))
  @@ (<< "h" >> :> Rat(100, 1))
  @@ (<< "d", "a" >> :> Rat(10, 1))
  @@ (<< >> :> Rat(1, 1))
  @@ (<< "d" >> :> Rat(1, 10))
  @@ (<< "c" >> :> Rat(1, 100))
  @@ (<< "m" >> :> Rat(1, 1000))
  @@ (<< "u" >> :> Rat(1, 1000000))

UNIT_TABLE ==
  (<< "m", "i", "c", "r", "o", "n" >> :> Rat(1, 1000000))
  @@ (<< "m", "i", "c", "r", "o", "n", "s" >> :> Rat(1, 1000000))
  @@ (<< "t", "h", "o", "u" >> :> RatOver(INCH, Rat(1000, 1)))
  @@ (<< "m", "i", "l" >> :> RatOver(INCH, Rat(1000, 1)))
  @@ (<< "m", "i", "l", "s" >> :> RatOver(INCH, Rat(1000, 1)))
  @@ (<< "p", "o", "i", "n", "t" >> :> PT)
  @@ (<< "p", "o", "i", "n", "t", "s" >> :> PT)
  @@ (<< "p", "i", "c", "a" >> :> PICA)
  @@ (<< "p", "i", "c", "a", "s" >> :> PICA)
  @@ (<< "i", "n", "c", "h" >> :> INCH)
  @@ (<< "i", "n", "c", "h", "e", "s" >> :> INCH)
  @@ (<< "i", "n" >> :> INCH)
  @@ (<< "\"" >> :> INCH)
  @@ (<< "f", "o", "o", "t" >> :> FOOT)
  @@ (<< "f", "e", "e", "t" >> :> FOOT)
  @@ (<< "f", "t" >> :> FOOT)
  @@ (<< "'" >> :> FOOT)
  @@ (<< "y", "a", "r", "d" >> :> YARD)
  @@ (<< "y", "a", "r", "d", "s" >> :> YARD)
  @@ (<< "y", "d" >> :> YARD)
  @@ (<< "b", "a", "r", "l", "e", "y", "c", "o", "r", "n" >> :> BARLEYCORN)
  @@ (<< "b", "a", "r", "l", "e", "y", "c", "o", "r", "n", "s" >> :> BARLEYCORN)
  @@ (<< "f", "u", "r", "l", "o", "n", "g" >> :> FURLONG)
  @@ (<< "f", "u", "r", "l", "o", "n", "g", "s" >> :> FURLONG)
  @@ (<< "c", "h", "a", "i", "n" >> :> CHAIN)
  @@ (<< "c", "h", "a", "i", "n", "s" >> :> CHAIN)
  @@ (<< "r", "o", "d" >> :> ROD)
  @@ (<< "r", "o", "d", "s" >> :> ROD)
  @@ (<< "l", "i", "n", "k" >> :> LINK)
  @@ (<< "l", "i", "n", "k", "s" >> :> LINK)
  @@ (<< "c", "u", "b", "i", "t" >> :> CUBIT)
  @@ (<< "c", "u", "b", "i", "t", "s" >> :> CUBIT)
  @@ (<< "f", "a", "t", "h", "o", "m" >> :> FATHOM)
  @@ (<< "f", "a", "t", "h", "o", "m", "s" >> :> FATHOM)
  @@ (<< "m", "i", "l", "e" >> :> MILE)
  @@ (<< "m", "i", "l", "e", "s" >> :> MILE)
  @@ (<< "m", "i" >> :> MILE)
  @@ (<< "l", "e", "a", "g", "u", "e" >> :> LEAGUE)
  @@ (<< "l", "e", "a", "g", "u", "e", "s" >> :> LEAGUE)

\* the endings /met(er|re)s?$/ matches
MeterEndings ==
  { << "m", "e", "t", "e", "r" >>,
    << "m", "e", "t", "r", "e" >>,
    << "m", "e", "t", "e", "r", "s" >>,
    << "m", "e", "t", "r", "e", "s" >> }

\* ConversionFactors.unit(name): the factor as a number, or a throw
Unit(name) ==
  LET InTable(table, key) ==
        IF key \in DOMAIN table THEN Number(table[key]) ELSE Threw
      Prefixed(found) ==
        IF found.kind # "Error" THEN found
        ELSE IF name # << >> /\ name[Len(name)] = "m"
             THEN InTable(SHORT_PREFIX_TABLE, SubSeq(name, 1, Len(name) - 1))
        ELSE LET m == { n \in 1..Len(name) :
                          SubSeq(name, n, Len(name)) \in MeterEndings }
             IN  IF m # { }
                 THEN InTable(LONG_PREFIX_TABLE,
                              SubSeq(name, 1, (CHOOSE n \in m : TRUE) - 1))
                 ELSE Threw
  IN  Prefixed(InTable(UNIT_TABLE, name))

(***************************************************************************)
(* Measurement: a value in meters tagged with its reference frame.         *)
(***************************************************************************)
\* Measurement._fromBare: the object with these two fields
Measurement(referenceFrame, value) ==
  [kind |-> "Measurement", frame |-> referenceFrame, value |-> value]

CloneExisting(referenceFrame, spec) ==
  IF referenceFrame # spec.frame
  THEN Threw
  ELSE Measurement(referenceFrame, spec.value)

\* what a list converts to when compared with a number: its items joined
\* by commas, so a number only for a list of at most one item
RECURSIVE LooselyZero(_)
\* `spec == 0`
LooselyZero(spec) ==
  CASE spec.kind = "number" -> spec.value = Zero
    [] spec.kind = "string" -> ToNumber(spec.text) = Zero
    [] spec.kind = "Array" ->
         \/ spec.items = << >>
         \/ /\ Len(spec.items) = 1
            /\ \/ spec.items[1].kind = "undefined"
               \/ LooselyZero(spec.items[1])
    [] OTHER -> FALSE

\* _handleZero accepting whatever compares equal to 0
HandleZeroLoosely(referenceFrame, spec) ==
  Measurement(referenceFrame, Zero)

HandleZero(referenceFrame, spec) ==
  IF \/ spec.kind = "number" /\ spec.value = Zero
     \/ spec.kind = "string" /\ spec.text = << "0" >>
  THEN Measurement(referenceFrame, Zero)
  ELSE Threw

\* a token made only of the characters of one class: /^[...]+$/
Matches(token, class) ==
  /\ token.kind = "string"
  /\ token.text # << >>
  /\ \A i \in 1..Len(token.text) : token.text[i] \in class

\* _parse's loop keeping only the last (number, unit) pair
RECURSIVE ParseFromLastOnly(_, _, _)
ParseFromLastOnly(tokens, index, value) ==
  IF index > Len(tokens) THEN Number(value)
  ELSE LET numToken == tokens[index]
           unitToken == tokens[index + 1]
           Rest(num, factor) ==
             IF num.kind = "Error" \/ factor.kind = "Error" THEN Threw
             ELSE ParseFromLastOnly(tokens, index + 2,
                                    RatTimes(num.value, factor.value))
       IN  Rest(IF numToken.kind = "number" THEN numToken
                ELSE IF Matches(numToken, NumberChars)
                     THEN Number(ToNumber(numToken.text))
                     ELSE Threw,
                IF Matches(unitToken, UnitChars)
                THEN Unit(unitToken.text)
                ELSE Threw)

\* _parse's loop from the pair at index on, value being the sum so far: the
\* sum as a number, or a throw
RECURSIVE ParseFrom(_, _, _)
ParseFrom(tokens, index, value) ==
  IF index > Len(tokens) THEN Number(value)
  ELSE LET numToken == tokens[index]
           unitToken == tokens[index + 1]
           Rest(num, factor) ==
             IF num.kind = "Error" \/ factor.kind = "Error" THEN Threw
             ELSE ParseFrom(tokens, index + 2,
                            RatPlus(value, RatTimes(num.value, factor.value)))
       IN  Rest(IF numToken.kind = "number" THEN numToken
                ELSE IF Matches(numToken, NumberChars)
                     THEN Number(ToNumber(numToken.text))
                     ELSE Threw,
                IF Matches(unitToken, UnitChars)
                THEN Unit(unitToken.text)
                ELSE Threw)

\* _parse without the test of the number of tokens: a dangling last token
\* is dropped
ParseDroppingOdd(referenceFrame, tokens) ==
  LET Set(sum) == IF sum.kind = "Error"
                  THEN Threw
                  ELSE Measurement(referenceFrame, sum.value)
  IN  Set(ParseFrom(SubSeq(tokens, 1, Len(tokens) - (Len(tokens) % 2)),
                    1, Zero))

\* _parse
Parse(referenceFrame, tokens) ==
  IF Len(tokens) % 2 # 0 THEN Threw
  ELSE LET Set(sum) == IF sum.kind = "Error"
                       THEN Threw
                       ELSE Measurement(referenceFrame, sum.value)
       IN  Set(ParseFrom(tokens, 1, Zero))

\* new Measurement(referenceFrame, spec)
NewMeasurement(referenceFrame, spec) ==
  IF referenceFrame \notin Frames THEN Threw
  ELSE IF spec.kind = "Measurement" THEN CloneExisting(referenceFrame, spec)
  ELSE IF LooselyZero(spec) THEN HandleZero(referenceFrame, spec)
  ELSE LET FromList(list) == IF list.kind = "Array"
                             THEN Parse(referenceFrame, list.items)
                             ELSE Threw
       IN  FromList(IF spec.kind = "string" THEN Tokenize(spec.text) ELSE spec)

\* _checkCompatible without the test of the frames
CheckCompatibleAnyFrame(this, rhs) ==
  IF rhs.kind = "Measurement"
  THEN rhs
  ELSE NewMeasurement(this.frame, rhs)

\* _checkCompatible taking a bare number as that many meters
CheckCompatibleBareMeters(this, rhs) ==
  IF rhs.kind = "Measurement"
  THEN IF this.frame # rhs.frame THEN Threw ELSE rhs
  ELSE IF rhs.kind = "number"
       THEN Measurement(this.frame, rhs.value)
       ELSE NewMeasurement(this.frame, rhs)

CheckCompatible(this, rhs) ==
  IF rhs.kind = "Measurement"
  THEN IF this.frame # rhs.frame THEN Threw ELSE rhs
  ELSE NewMeasurement(this.frame, rhs)

Plus(this, addend) ==
  LET Sum(rhs) ==
        IF rhs.kind = "Error"
        THEN Threw
        ELSE Measurement(this.frame, RatPlus(this.value, rhs.value))
  IN  Sum(CheckCompatible(this, addend))

Minus(this, subtrahend) ==
  LET Difference(rhs) ==
        IF rhs.kind = "Error"
        THEN Threw
        ELSE Measurement(this.frame, RatMinus(this.value, rhs.value))
  IN  Difference(CheckCompatible(this, subtrahend))

Times(this, factor) ==
  IF factor.kind = "number"
  THEN Measurement(this.frame, RatTimes(this.value, factor.value))
  ELSE Threw

\* dividedBy without the tests for a zero divisor
DividedByUnchecked(this, divisor) ==
  IF divisor.kind = "number"
  THEN Measurement(this.frame, RatOver(this.value, divisor.value))
  ELSE LET Ratio(rhs) == IF rhs.kind = "Error" THEN Threw
                         ELSE Number(RatOver(this.value, rhs.value))
       IN  Ratio(CheckCompatible(this, divisor))

DividedBy(this, divisor) ==
  IF divisor.kind = "number"
  THEN IF divisor.value = Zero
       THEN Threw
       ELSE Measurement(this.frame, RatOver(this.value, divisor.value))
  ELSE LET Ratio(rhs) == IF rhs.kind = "Error" THEN Threw
                         ELSE IF rhs.value = Zero THEN Threw
                         ELSE Number(RatOver(this.value, rhs.value))
       IN  Ratio(CheckCompatible(this, divisor))

GreaterThan(this, operand) ==
  LET Compare(rhs) == IF rhs.kind = "Error" THEN Threw
                      ELSE Boolean(RatLess(rhs.value, this.value))
  IN  Compare(CheckCompatible(this, operand))

GreaterThanOrEqualTo(this, operand) ==
  LET Compare(rhs) ==
        IF rhs.kind = "Error" THEN Threw
        ELSE Boolean(RatLess(rhs.value, this.value)
                       \/ RatEqual(this.value, rhs.value))
  IN  Compare(CheckCompatible(this, operand))

LessThan(this, operand) ==
  LET Compare(rhs) == IF rhs.kind = "Error" THEN Threw
                      ELSE Boolean(RatLess(this.value, rhs.value))
  IN  Compare(CheckCompatible(this, operand))

LessThanOrEqualTo(this, operand) ==
  LET Compare(rhs) ==
        IF rhs.kind = "Error" THEN Threw
        ELSE Boolean(RatLess(this.value, rhs.value)
                       \/ RatEqual(this.value, rhs.value))
  IN  Compare(CheckCompatible(this, operand))

EqualTo(this, operand) ==
  LET Compare(rhs) == IF rhs.kind = "Error" THEN Threw
                      ELSE Boolean(RatEqual(this.value, rhs.value))
  IN  Compare(CheckCompatible(this, operand))

NotEqualTo(this, operand) ==
  LET Compare(rhs) == IF rhs.kind = "Error" THEN Threw
                      ELSE Boolean(~RatEqual(this.value, rhs.value))
  IN  Compare(CheckCompatible(this, operand))

(***************************************************************************)
(* MeasurementPair: two Measurements of one frame, tagged point, vector or *)
(* extent.                                                                 *)
(***************************************************************************)
POINT == "point"
VECTOR == "vector"
EXTENT == "extent"

WorldM(spec) ==
  IF spec.kind = "Measurement" /\ spec.frame = WORLD
  THEN spec
  ELSE NewMeasurement(WORLD, spec)

\* new MeasurementPair(type, x, y)
NewMeasurementPair(type, x, y) ==
  LET Pair(mx, my) ==
        IF mx.kind = "Error" \/ my.kind = "Error" THEN Threw
        ELSE IF mx.frame # my.frame THEN Threw
        ELSE [kind |-> "MeasurementPair", type |-> type, x |-> mx, y |-> my]
  IN  Pair(IF x.kind = "Measurement" THEN x ELSE WorldM(x),
           IF y.kind = "Measurement" THEN y ELSE WorldM(y))

\* list[i] of a JavaScript list, counted from 1
ItemAt(list, i) ==
  IF i <= Len(list.items) THEN list.items[i] ELSE Undefined

\* _checkCompatible of MeasurementPair without the test of the kinds
PairCheckCompatibleAnyKinds(this, operand, allowed, resultType) ==
  IF operand.kind # "MeasurementPair" THEN Threw
  ELSE IF this.x.frame # operand.x.frame THEN Threw
  ELSE [kind |-> "compatible", rhs |-> operand,
        resultType |-> IF << this.type, operand.type >> \in DOMAIN resultType
                       THEN resultType[<< this.type, operand.type >>]
                       ELSE this.type]

\* _checkCompatible of MeasurementPair taking a list operand as a vector
PairCheckCompatibleListAsVector(this, operand, allowed, resultType) ==
  LET FromItems(x, y) == IF x.kind = "Error" \/ y.kind = "Error"
                         THEN Threw
                         ELSE NewMeasurementPair(VECTOR, x, y)
      Check(rhs) ==
        IF rhs.kind # "MeasurementPair" THEN Threw
        ELSE LET typeCombo == << this.type, rhs.type >>
             IN  IF typeCombo \notin allowed THEN Threw
                 ELSE IF this.x.frame # rhs.x.frame THEN Threw
                 ELSE [kind |-> "compatible", rhs |-> rhs,
                       resultType |-> resultType[typeCombo]]
  IN  Check(IF operand.kind = "Array"
            THEN FromItems(NewMeasurement(this.x.frame, ItemAt(operand, 1)),
                           NewMeasurement(this.x.frame, ItemAt(operand, 2)))
            ELSE operand)

\* _checkCompatible of MeasurementPair: the operand as a pair and the kind
\* of the result, or a throw
PairCheckCompatible(this, operand, allowed, resultType) ==
  LET FromItems(x, y) == IF x.kind = "Error" \/ y.kind = "Error"
                         THEN Threw
                         ELSE NewMeasurementPair(this.type, x, y)
      Check(rhs) ==
        IF rhs.kind # "MeasurementPair" THEN Threw
        ELSE LET typeCombo == << this.type, rhs.type >>
             IN  IF typeCombo \notin allowed THEN Threw
                 ELSE IF this.x.frame # rhs.x.frame THEN Threw
                 ELSE [kind |-> "compatible", rhs |-> rhs,
                       resultType |-> resultType[typeCombo]]
  IN  Check(IF operand.kind = "Array"
            THEN FromItems(NewMeasurement(this.x.frame, ItemAt(operand, 1)),
                           NewMeasurement(this.x.frame, ItemAt(operand, 2)))
            ELSE operand)

PlusAllowed == { << POINT, VECTOR >>, << VECTOR, VECTOR >> }

\* plus()'s table with the kind of point + vector wrong
PlusResultTypeAllVector ==
  (<< POINT, VECTOR >> :> VECTOR) @@ (<< VECTOR, VECTOR >> :> VECTOR)

PlusResultType ==
  (<< POINT, VECTOR >> :> POINT) @@ (<< VECTOR, VECTOR >> :> VECTOR)

MinusAllowed ==
  { << POINT, POINT >>, << POINT, VECTOR >>, << VECTOR, VECTOR >> }

MinusResultType ==
  (<< POINT, POINT >> :> VECTOR) @@ (<< POINT, VECTOR >> :> POINT)
    @@ (<< VECTOR, VECTOR >> :> VECTOR)

\* MeasurementPair.plus called with these arguments
PairPlus(this, arguments) ==
  IF Len(arguments) # 1 THEN Threw
  ELSE LET Pair(type, x, y) == IF x.kind = "Error" \/ y.kind = "Error"
                               THEN Threw
                               ELSE NewMeasurementPair(type, x, y)
           Add(c) == IF c.kind = "Error" THEN Threw
                     ELSE Pair(c.resultType, Plus(this.x, c.rhs.x),
                               Plus(this.y, c.rhs.y))
       IN  Add(PairCheckCompatible(this, arguments[1],
                                   PlusAllowed, PlusResultType))

\* MeasurementPair.minus called with these arguments
PairMinus(this, arguments) ==
  IF Len(arguments) # 1 THEN Threw
  ELSE LET Pair(type, x, y) == IF x.kind = "Error" \/ y.kind = "Error"
                               THEN Threw
                               ELSE NewMeasurementPair(type, x, y)
           Subtract(c) == IF c.kind = "Error" THEN Threw
                          ELSE Pair(c.resultType, Minus(this.x, c.rhs.x),
                                    Minus(this.y, c.rhs.y))
       IN  Subtract(PairCheckCompatible(this, arguments[1],
                                        MinusAllowed, MinusResultType))

\* MeasurementPair.times called with one argument
PairTimes(this, factor) ==
  IF factor.kind # "number" THEN Threw
  ELSE LET Pair(x, y) == IF x.kind = "Error" \/ y.kind = "Error"
                         THEN Threw
                         ELSE NewMeasurementPair(this.type, x, y)
       IN  Pair(Times(this.x, factor), Times(this.y, factor))

\* MeasurementPair.dividedBy called with one argument
PairDividedBy(this, divisor) ==
  IF divisor.kind # "number" THEN Threw
  ELSE IF divisor.value = Zero THEN Threw
  ELSE LET Pair(x, y) == IF x.kind = "Error" \/ y.kind = "Error"
                         THEN Threw
                         ELSE NewMeasurementPair(this.type, x, y)
       IN  Pair(DividedBy(this.x, divisor), DividedBy(this.y, divisor))

(***************************************************************************)
(* Value objects as objects: a list of the objects constructed so far, an  *)
(* object's address being its index.  A MeasurementPair object holds the   *)
(* addresses of its two Measurements (this._x = x keeps the object it is   *)
(* given), so several pairs may share one Measurement.  The operations     *)
(* compute as above on the values found at the addresses; what they do to  *)
(* the list of objects is modelled here.                                   *)
(***************************************************************************)
\* a reference to the object at an address
Ref(address) == [kind |-> "Reference", at |-> address]

\* what a call leaves behind: the objects, and what it returned (a
\* reference, a number, a boolean) or that it threw
Effect(h, returned) == [heap |-> h, result |-> returned]

\* the value at an address: a pair with the values of its Measurements
Deref(h, address) ==
  IF h[address].kind = "MeasurementPair"
  THEN [h[address] EXCEPT !.x = h[h[address].x], !.y = h[h[address].y]]
  ELSE h[address]

\* _fromBare reusing a Measurement of the frame where there is one
FromBareReusing(h, referenceFrame, value) ==
  LET same == { a \in DOMAIN h : /\ h[a].kind = "Measurement"
                                 /\ h[a].frame = referenceFrame }
      address == IF same = { } THEN Len(h) + 1 ELSE CHOOSE a \in same : TRUE
      created == IF same = { }
                 THEN Append(h, Measurement(referenceFrame, Zero))
                 ELSE h
  IN  Effect([created EXCEPT ![address].value = value], Ref(address))

\* Measurement._fromBare: result = new Measurement(referenceFrame, 0);
\* result._value = value; return result
FromBare(h, referenceFrame, value) ==
  LET address == Len(h) + 1
      created == Append(h, Measurement(referenceFrame, Zero))
  IN  Effect([created EXCEPT ![address].value = value], Ref(address))

\* a method of Measurement returns: a Measurement through _fromBare, a
\* number or a boolean as it is, or the method threw
ReturnMeasurement(h, outcome) ==
  IF outcome.kind = "Measurement"
  THEN FromBare(h, outcome.frame, outcome.value)
  ELSE Effect(h, outcome)

\* return new MeasurementPair(type, x, y) with x and y made by methods of
\* Measurement, or a throw
ReturnPair(h, outcome) ==
  IF outcome.kind # "MeasurementPair" THEN Effect(h, outcome)
  ELSE LET Pair(x, y) ==
             Effect(Append(y.heap, [kind |-> "MeasurementPair",
                                    type |-> outcome.type,
                                    x |-> x.result.at, y |-> y.result.at]),
                    Ref(Len(y.heap) + 1))
           WithY(x) == Pair(x, FromBare(x.heap, outcome.y.frame,
                                         outcome.y.value))
       IN  WithY(FromBare(h, outcome.x.frame, outcome.x.value))

\* the whole part of Math.sqrt(n)
Sqrt(n) == CHOOSE r \in 0..n : r * r <= n /\ n < (r + 1) * (r + 1)

\* MeasurementPair.length(), to whole meters
Length(h, this) ==
  LET x == h[h[this].x].value
      y == h[h[this].y].value
      squares == RatPlus(RatTimes(x, x), RatTimes(y, y))
  IN  FromBare(h, h[h[this].x].frame,
               Rat(Sqrt(squares[1] \div squares[2]), 1))

\* Measurement._conversionFactor after _setConversionFactor("1:2")
ConversionFactor == Rat(1, 2)

\* toWorld(): result = worldM(0); result._value = ...; return result
ToWorld(h, this) ==
  IF h[this].frame = WORLD THEN Effect(h, Threw)
  ELSE LET address == Len(h) + 1
           created == Append(h, NewMeasurement(WORLD, Number(Zero)))
       IN  Effect([created EXCEPT ![address].value =
                     RatOver(h[this].value, ConversionFactor)], Ref(address))

\* toPrinted(): result = printedM(0); result._value = ...; return result
ToPrinted(h, this) ==
  IF h[this].frame = PRINTED THEN Effect(h, Threw)
  ELSE LET address == Len(h) + 1
           created == Append(h, NewMeasurement(PRINTED, Number(Zero)))
       IN  Effect([created EXCEPT ![address].value =
                     RatTimes(h[this].value, ConversionFactor)], Ref(address))

\* applyToPoint(pt): point(_fromBare(PRINTED, result[0]),
\* _fromBare(PRINTED, result[1]))
ApplyToPointObject(h, this, point) ==
  LET a == h[this].matrix
      b == << h[h[point].x].value, h[h[point].y].value, Rat(1, 1) >>
      Row(i) == RatPlus(RatPlus(RatTimes(Rat(a[i][1], 1), b[1]),
                                RatTimes(Rat(a[i][2], 1), b[2])),
                        RatTimes(Rat(a[i][3], 1), b[3]))
  IN  ReturnPair(h, [kind |-> "MeasurementPair", type |-> POINT,
                     x |-> Measurement(PRINTED, Row(1)),
                     y |-> Measurement(PRINTED, Row(2))])

\* compose(xform2): return new AffineTransformation(result)
ComposeObjects(h, this, xform2) ==
  IF h[xform2].kind # "AffineTransformation" THEN Effect(h, Threw)
  ELSE Effect(Append(h, [kind |-> "AffineTransformation",
                         matrix |-> Compose(h[this].matrix, h[xform2].matrix)]),
              Ref(Len(h) + 1))

\* no value objects are kept
NoObjects == objects = << >>

\* no call on a value object is under way
NoCall ==
  /\ recv = Undefined
  /\ args = <<>>
  /\ method = "none"
  /\ result = Undefined

\* no transformation is under construction
NoXform ==
  /\ composed = NullXform
  /\ factors = << >>
  /\ pt = << 0, 0 >>
  /\ img = << 0, 0 >>

Init == KitInit /\ NoCall /\ NoXform /\ NoObjects

Next ==
  \/ /\ \E userOptions \in userChoices : Generate(userOptions)
     /\ UNCHANGED << valVars, xfVars, objects >>
  \/ /\ \E parent, child \in 1..NumComps :
          AddSubComponent(parent, child, PositionIn(parent, child))
     /\ UNCHANGED << valVars, xfVars, optVars, useVars, objects >>
  \/ /\ \E c \in 1..NumComps : AddPiece(c)
     /\ UNCHANGED << valVars, xfVars, optVars, useVars, objects >>
  \/ BuildThrows /\ UNCHANGED << valVars, xfVars, optVars, useVars, objects >>
  \/ BuildReturns /\ UNCHANGED << valVars, xfVars, optVars, useVars, objects >>
  \/ PackIteration /\ UNCHANGED << valVars, xfVars, optVars, useVars, objects >>
  \/ PackReturns /\ UNCHANGED << valVars, xfVars, optVars, useVars, objects >>
  \/ RenderPage /\ UNCHANGED << valVars, xfVars, optVars, useVars, objects >>
  \/ RenderPiece /\ UNCHANGED << valVars, xfVars, optVars, useVars, objects >>
  \/ RenderSave /\ UNCHANGED << valVars, xfVars, optVars, useVars, objects >>

Spec == Init /\ [][Next]_vars

(***************************************************************************)
(* A Kit that is used again: generate() is called up to MaxGenerateCalls   *)
(* times on it, with and without user options.                             *)
(***************************************************************************)
\* what getDefaultOptions() of the Kit classes returns
DefaultChoices ==
  { NoOptions,
    [scale |-> "1:10", color |-> "blue"] }

\* the userOptions the program passes to generate()
UserChoices ==
  { NoOptions,
    [format |-> "a4", color |-> "red"] }

InitG ==
  /\ KitIdle
  /\ \E defaults \in DefaultChoices : KitConstructor(defaults)
  /\ Use(MaxGenerateCalls, UserChoices, MaxRebuildCalls)
  /\ NoCall
  /\ NoXform
  /\ NoObjects

SpecG == InitG /\ [][Next]_vars

(***************************************************************************)
(* One call on a Measurement, or of its constructor, for every receiver    *)
(* and operand within the bounds.                                          *)
(***************************************************************************)
Values == { Rat(n, d) : n \in -MaxValue..MaxValue, d \in { 1, 2 } }

Measurements == { Measurement(f, v) : f \in Frames, v \in Values }

\* what a caller passes where a Measurement is expected
Operands ==
  Measurements \cup { Number(v) : v \in Values }
    \cup { String(<< "0" >>), String(<< >>) }

\* the referenceFrame argument of the constructor
FrameArgs == { String(f) : f \in Frames \cup { "W" } }

InitM ==
  /\ KitInit
  /\ NoXform
  /\ NoObjects
  /\ recv \in Measurements \cup FrameArgs
  /\ args \in { << a >> : a \in Operands }
  /\ method = "none"
  /\ result = Undefined

Invoke(name, outcome) ==
  /\ method = "none"
  /\ method' = name
  /\ result' = outcome
  /\ UNCHANGED << recv, args, kitVars, xfVars, optVars, useVars, objects >>

CallNewMeasurement ==
  /\ recv.kind = "string"
  /\ Invoke("new Measurement", NewMeasurement(recv.text, args[1]))

CallPlus ==
  recv.kind = "Measurement" /\ Invoke("plus", Plus(recv, args[1]))

CallMinus ==
  recv.kind = "Measurement" /\ Invoke("minus", Minus(recv, args[1]))

CallTimes ==
  recv.kind = "Measurement" /\ Invoke("times", Times(recv, args[1]))

CallDividedBy ==
  recv.kind = "Measurement" /\ Invoke("dividedBy", DividedBy(recv, args[1]))

CallGreaterThan ==
  /\ recv.kind = "Measurement"
  /\ Invoke("greaterThan", GreaterThan(recv, args[1]))

CallGreaterThanOrEqualTo ==
  /\ recv.kind = "Measurement"
  /\ Invoke("greaterThanOrEqualTo", GreaterThanOrEqualTo(recv, args[1]))

CallLessThan ==
  recv.kind = "Measurement" /\ Invoke("lessThan", LessThan(recv, args[1]))

CallLessThanOrEqualTo ==
  /\ recv.kind = "Measurement"
  /\ Invoke("lessThanOrEqualTo", LessThanOrEqualTo(recv, args[1]))

CallEqualTo ==
  recv.kind = "Measurement" /\ Invoke("equalTo", EqualTo(recv, args[1]))

CallNotEqualTo ==
  recv.kind = "Measurement" /\ Invoke("notEqualTo", NotEqualTo(recv, args[1]))

NextM ==
  \/ CallNewMeasurement
  \/ CallPlus
  \/ CallMinus
  \/ CallTimes
  \/ CallDividedBy
  \/ CallGreaterThan
  \/ CallGreaterThanOrEqualTo
  \/ CallLessThan
  \/ CallLessThanOrEqualTo
  \/ CallEqualTo
  \/ CallNotEqualTo

SpecM == InitM /\ [][NextM]_vars

(***************************************************************************)
(* One call of the Measurement constructor on a spec that is parsed: a     *)
(* string written with the pieces below, or a flat list.                   *)
(***************************************************************************)
\* what the strings are written with: numbers, one of them signed, the
\* letters of m, cm and mm, a blank, and a character of no token
Chunks ==
  { << "1" >>, << "-", "2" >>, << "0" >>, << "m" >>, << "c" >>, << " " >>,
    << "#" >> }

RECURSIVE StringsUpTo(_)
StringsUpTo(k) ==
  IF k = 0
  THEN { << >> }
  ELSE LET shorter == StringsUpTo(k - 1)
       IN  shorter \cup { s \o c : s \in shorter, c \in Chunks }

\* the items of the lists: numbers, number tokens, unit tokens, and a token
\* that names no unit
ListItems ==
  { Number(Rat(1, 1)), Number(Zero), String(<< "2" >>),
    String(<< ".", "5" >>), String(<< "m" >>), String(<< "f", "t" >>),
    String(<< "x" >>) }

RECURSIVE ListsUpTo(_)
ListsUpTo(k) ==
  IF k = 0
  THEN { << >> }
  ELSE LET shorter == ListsUpTo(k - 1)
       IN  shorter \cup { Append(l, i) : l \in shorter, i \in ListItems }

InitS ==
  /\ KitInit
  /\ NoXform
  /\ NoObjects
  /\ recv \in { String(f) : f \in Frames }
  /\ \/ \E s \in StringsUpTo(MaxChunks) : args = << String(s) >>
     \/ \E l \in ListsUpTo(MaxItems) : args = << Array(l) >>
     \/ args = << Number(Zero) >>
  /\ method = "none"
  /\ result = Undefined

NextS == CallNewMeasurement

SpecS == InitS /\ [][NextS]_vars

(***************************************************************************)
(* One call on a MeasurementPair, or of its constructor.                   *)
(***************************************************************************)
Coords == { Rat(n, 1) : n \in 0..MaxCoord }

PairTypes == { POINT, VECTOR, EXTENT }

Pairs ==
  { NewMeasurementPair(t, Measurement(f, a), Measurement(f, b)) :
      t \in PairTypes, f \in Frames, a \in Coords, b \in Coords }

\* what a caller passes as a coordinate
Items ==
  { Measurement(f, a) : f \in Frames, a \in Coords }
    \cup { Number(a) : a \in Coords }

Lists ==
  { Array(<< a, b >>) : a \in Items, b \in Items }
    \cup { Array(<< a >>) : a \in Items }

Arguments ==
  { << a >> : a \in Pairs \cup Lists \cup Items }
    \cup { << a, b >> : a \in Items, b \in Items }
    \cup { << >> }

\* the type argument of the constructor
TypeArgs == { String(t) : t \in PairTypes }

InitP ==
  /\ KitInit
  /\ NoXform
  /\ NoObjects
  /\ recv \in Pairs \cup TypeArgs
  /\ args \in Arguments
  /\ method = "none"
  /\ result = Undefined

CallNewMeasurementPair ==
  /\ recv.kind = "string"
  /\ Invoke("new MeasurementPair",
            IF 1 + Len(args) # 3
            THEN Threw
            ELSE NewMeasurementPair(recv.text, args[1], args[2]))

CallPairPlus ==
  recv.kind = "MeasurementPair" /\ Invoke("plus", PairPlus(recv, args))

CallPairMinus ==
  recv.kind = "MeasurementPair" /\ Invoke("minus", PairMinus(recv, args))

NextP ==
  \/ CallNewMeasurementPair
  \/ CallPairPlus
  \/ CallPairMinus

SpecP == InitP /\ [][NextP]_vars

(***************************************************************************)
(* Transformations built by the constructors and compose, and applied to a *)
(* point.  A construction is a class with its constructor arguments; the   *)
(* arguments of Translate are the meters of "1 m" and "2 m".               *)
(***************************************************************************)
Angles == { 0, 45, ROT90, ROT180, ROT270, 360 }

Constructions ==
  { [class |-> "Resize", params |-> << 2 >>],
    [class |-> "Identity", params |-> << >>],
    [class |-> "Translate", params |-> << 1, 2 >>],
    [class |-> "ReflectAroundXAxis", params |-> << >>] }
    \cup { [class |-> "Rotate", params |-> << which >>] : which \in Angles }

\* new <class>(<params>): the matrix, or XformThrew
New(c) ==
  CASE c.class = "Resize" -> Resize(c.params[1])
    [] c.class = "Identity" -> Identity
    [] c.class = "Translate" -> Translate(c.params[1], c.params[2])
    [] c.class = "ReflectAroundXAxis" -> ReflectAroundXAxis
    [] c.class = "Rotate" -> Rotate(c.params[1])

\* bare (x, y) of the points transformations are applied to
Points == { <<0, 0>>, <<1, 0>>, <<3, 5>>, <<-2, 1>> }

InitX ==
  /\ KitInit
  /\ NoCall
  /\ NoObjects
  /\ composed = NullXform
  /\ factors = << >>
  /\ pt \in Points
  /\ img = pt

\* composed = new C(...); img = composed.applyToPoint(pt)
Construct(c) ==
  /\ factors = << >>
  /\ composed' = New(c)
  /\ factors' = << c >>
  /\ img' = IF IsXform(New(c)) THEN ApplyToPoint(New(c), pt) ELSE img
  /\ UNCHANGED << pt, kitVars, valVars, optVars, useVars, objects >>

\* t = new C(...); composed = t.compose(composed); img = t.applyToPoint(img)
ComposeWith(c) ==
  /\ IsXform(composed)
  /\ Len(factors) < MaxFactors
  /\ composed' = IF IsXform(New(c)) THEN Compose(New(c), composed) ELSE XformThrew
  /\ factors' = << c >> \o factors
  /\ img' = IF IsXform(New(c)) THEN ApplyToPoint(New(c), img) ELSE img
  /\ UNCHANGED << pt, kitVars, valVars, optVars, useVars, objects >>

NextX ==
  \/ \E c \in Constructions : Construct(c)
  \/ \E c \in Constructions : ComposeWith(c)

SpecX == InitX /\ [][NextX]_vars

(***************************************************************************)
(* Calls on value objects that share Measurements: two pairs made of the   *)
(* same two Measurements, a Measurement of the other frame and a           *)
(* transformation, and then whatever the calls return.                     *)
(***************************************************************************)
InitialObjects ==
  << Measurement(WORLD, Rat(3, 1)),
     Measurement(WORLD, Rat(4, 1)),
     Measurement(PRINTED, Rat(1, 1)),
     [kind |-> "MeasurementPair", type |-> POINT, x |-> 1, y |-> 2],
     [kind |-> "MeasurementPair", type |-> VECTOR, x |-> 2, y |-> 1],
     [kind |-> "AffineTransformation", matrix |-> Rotate(ROT90)] >>

InitH ==
  /\ KitInit
  /\ NoCall
  /\ NoXform
  /\ objects = InitialObjects

\* the addresses of the objects of a class
OfKind(kind) == { a \in DOMAIN objects : objects[a].kind = kind }

\* what a caller passes to a method of Measurement: an object or a number
OperandsAt(addresses) ==
  { objects[a] : a \in addresses } \cup { Number(Zero), Number(Rat(2, 1)) }

\* a call of the method name that has this effect
CallOn(name, effect) ==
  /\ Len(objects) < Len(InitialObjects) + MaxNewObjects
  /\ method' = name
  /\ objects' = effect.heap
  /\ result' = effect.result
  /\ UNCHANGED << recv, args, kitVars, xfVars, optVars, useVars >>

ObjectPlus ==
  \E this \in OfKind("Measurement"), addend \in OperandsAt(OfKind("Measurement")) :
    LET Return(outcome) == CallOn("plus", ReturnMeasurement(objects, outcome))
    IN  Return(Plus(objects[this], addend))

ObjectMinus ==
  \E this \in OfKind("Measurement"), subtrahend \in OperandsAt(OfKind("Measurement")) :
    LET Return(outcome) == CallOn("minus", ReturnMeasurement(objects, outcome))
    IN  Return(Minus(objects[this], subtrahend))

ObjectTimes ==
  \E this \in OfKind("Measurement"), factor \in OperandsAt({ }) :
    LET Return(outcome) == CallOn("times", ReturnMeasurement(objects, outcome))
    IN  Return(Times(objects[this], factor))

ObjectDividedBy ==
  \E this \in OfKind("Measurement"), divisor \in OperandsAt(OfKind("Measurement")) :
    LET Return(outcome) == CallOn("dividedBy", ReturnMeasurement(objects, outcome))
    IN  Return(DividedBy(objects[this], divisor))

\* the six comparisons
ObjectCompare ==
  \E this \in OfKind("Measurement"), operand \in OperandsAt(OfKind("Measurement")) :
    LET Return(name, outcome) == CallOn(name, Effect(objects, outcome))
    IN  \/ Return("greaterThan", GreaterThan(objects[this], operand))
        \/ Return("greaterThanOrEqualTo",
                  GreaterThanOrEqualTo(objects[this], operand))
        \/ Return("lessThan", LessThan(objects[this], operand))
        \/ Return("lessThanOrEqualTo", LessThanOrEqualTo(objects[this], operand))
        \/ Return("equalTo", EqualTo(objects[this], operand))
        \/ Return("notEqualTo", NotEqualTo(objects[this], operand))

ObjectToWorld ==
  \E this \in OfKind("Measurement") : CallOn("toWorld", ToWorld(objects, this))

ObjectToPrinted ==
  \E this \in OfKind("Measurement") :
    CallOn("toPrinted", ToPrinted(objects, this))

ObjectPairPlus ==
  \E this \in OfKind("MeasurementPair"), operand \in OfKind("MeasurementPair") :
    LET Return(outcome) == CallOn("pair plus", ReturnPair(objects, outcome))
    IN  Return(PairPlus(Deref(objects, this), << Deref(objects, operand) >>))

ObjectPairMinus ==
  \E this \in OfKind("MeasurementPair"), operand \in OfKind("MeasurementPair") :
    LET Return(outcome) == CallOn("pair minus", ReturnPair(objects, outcome))
    IN  Return(PairMinus(Deref(objects, this), << Deref(objects, operand) >>))

ObjectPairTimes ==
  \E this \in OfKind("MeasurementPair"),
     factor \in OperandsAt(OfKind("Measurement")) :
    LET Return(outcome) == CallOn("pair times", ReturnPair(objects, outcome))
    IN  Return(PairTimes(Deref(objects, this), factor))

ObjectPairDividedBy ==
  \E this \in OfKind("MeasurementPair"),
     divisor \in OperandsAt(OfKind("Measurement")) :
    LET Return(outcome) == CallOn("pair dividedBy", ReturnPair(objects, outcome))
    IN  Return(PairDividedBy(Deref(objects, this), divisor))

ObjectLength ==
  \E this \in OfKind("MeasurementPair") : CallOn("length", Length(objects, this))

ObjectApplyToPoint ==
  \E this \in OfKind("AffineTransformation"), point \in OfKind("MeasurementPair") :
    CallOn("applyToPoint", ApplyToPointObject(objects, this, point))

ObjectCompose ==
  \E this \in OfKind("AffineTransformation"),
     xform2 \in OfKind("AffineTransformation") \cup OfKind("MeasurementPair") :
    CallOn("compose", ComposeObjects(objects, this, xform2))

NextH ==
  \/ ObjectPlus
  \/ ObjectMinus
  \/ ObjectTimes
  \/ ObjectDividedBy
  \/ ObjectCompare
  \/ ObjectToWorld
  \/ ObjectToPrinted
  \/ ObjectPairPlus
  \/ ObjectPairMinus
  \/ ObjectPairTimes
  \/ ObjectPairDividedBy
  \/ ObjectLength
  \/ ObjectApplyToPoint
  \/ ObjectCompose

SpecH == InitH /\ [][NextH]_vars

(***************************************************************************)
(* Properties of the pipeline.                                             *)
(***************************************************************************)
Pieces == 1..Len(pieceList)

\* the places <<page, index>> of the page list that hold piece i
PlacesOf(i) ==
  { pk \in (1..Len(pageList)) \X (1..MaxBuildCalls) :
      pk[2] <= Len(pageList[pk[1]]) /\ pageList[pk[1]][pk[2]] = i }

PackReturned == pc \in {"render", "done"}

\* C1: once pack() has returned normally, every piece registered through
\* addPiece is on exactly one page of the page list, at exactly one place of
\* it, and has a position.
C1_EveryPieceOnOnePage ==
  PackReturned =>
    \A i \in Pieces :
      /\ Cardinality(PlacesOf(i)) = 1
      /\ pieceList[i].position # NoPosition

C1_Witness ==
  /\ PackReturned
  /\ Len(pieceList) >= 3
  /\ Len(pageList) >= 2
  /\ \E p \in 1..Len(pageList) : Len(pageList[p]) >= 2

TooBigForPage(piece) == piece.width > pageSize[1] /\ piece.height > pageSize[2]

\* C2: a BinPack that positions nothing makes pack() throw in that very
\* iteration (no page is added for it and nothing is tried again), and
\* pack() never returns normally when a piece is larger than the page in
\* both dimensions.
C2_ZeroPlacedThrows ==
  /\ (bp.called /\ Len(bp.positioned) = 0) =>
        /\ pc = "threw"
        /\ Len(notYetPacked) > 0
        /\ \A p \in 1..Len(pageList) : Len(pageList[p]) > 0
  /\ PackReturned => \A i \in Pieces : ~TooBigForPage(pieceList[i])

C2_Witness ==
  /\ pc = "threw"
  /\ bp.called
  /\ Len(bp.positioned) = 0
  /\ Len(pageList) >= 1
  /\ \E i \in Pieces : TooBigForPage(pieceList[i])

\* C3: every iteration of pack()'s loop that does not throw strictly shrinks
\* the not-yet-packed list, whose length is never negative, so the loop ends;
\* and the pages made so far plus the pieces still to pack never outnumber
\* the pieces.
C3_PackTerminates ==
  /\ [][(pc = "pack" /\ pc' = "pack") =>
          Len(notYetPacked') < Len(notYetPacked)]_vars
  /\ [](pc = "pack" => Len(pageList) + Len(notYetPacked) <= Len(pieceList))
  /\ [](PackReturned => Len(pageList) <= Len(pieceList))

C3_Witness ==
  /\ PackReturned
  /\ Len(pieceList) = 3
  /\ Len(pageList) = 3

IsPrefix(s, t) == Len(s) <= Len(t) /\ \A k \in 1..Len(s) : s[k] = t[k]

\* C4: within one generate() the phases start in the order build, pack,
\* render, each at most once and each only after the one before it has
\* returned; the piece list is complete when pack starts (no piece is
\* registered later), and every piece has its page and position when render
\* starts.
C4_PhasesInOrder ==
  /\ [](IsPrefix(phases, << "build", "pack", "render" >>))
  /\ [](pc = "build" => phases = << "build" >>)
  /\ [](pc = "pack" => phases = << "build", "pack" >>)
  /\ [](PackReturned => phases = << "build", "pack", "render" >>)
  /\ [][(Len(phases) >= 2) =>
          /\ Len(pieceList') = Len(pieceList)
          /\ \A i \in Pieces : pieceList'[i].component = pieceList[i].component]_vars
  /\ []("render" \in { phases[k] : k \in 1..Len(phases) } =>
          \A i \in Pieces : pieceList[i].position # NoPosition /\ PlacesOf(i) # {})

C4_Witness ==
  /\ pc = "done"
  /\ phases = << "build", "pack", "render" >>
  /\ Len(pieceList) >= 2

OutputOps == { "lines", "addPage", "save" }

\* C5: when build() or pack() has thrown, generate() is over: no phase is
\* entered afterwards, and the jsPDF object has received and will receive no
\* drawing call, no addPage and no save.
C5_ThrowAborts ==
  /\ [](pc = "threw" =>
          /\ "render" \notin { phases[k] : k \in 1..Len(phases) }
          /\ \A k \in 1..Len(pdf) : pdf[k].op \notin OutputOps)
  /\ [][pc = "threw" => (pc' = "threw" /\ phases' = phases /\ pdf' = pdf)]_vars

C5_Witness ==
  /\ pc = "threw"
  /\ phases = << "build", "pack" >>
  /\ Len(pageList) >= 1

\* the number of addPage calls among the first k calls the jsPDF object got
RECURSIVE AdvancesBefore(_)
AdvancesBefore(k) ==
  IF k = 0 THEN 0
  ELSE AdvancesBefore(k - 1) + (IF pdf[k].op = "addPage" THEN 1 ELSE 0)

CallsOf(op) == { k \in 1..Len(pdf) : pdf[k].op = op }

\* the page of the jsPDF object that is current when it gets its k-th call
CurrentPage(k) == 1 + AdvancesBefore(k)

\* C6: while render() runs and after it, every drawing call of a piece is
\* made while the page pack() put the piece on is current (so no addPage
\* comes before the first page's drawing calls and one comes between those
\* of consecutive pages); a finished render() over n >= 1 pages has made
\* n - 1 addPage calls and one save call, the last call of all.
C6_PageAdvances ==
  /\ PackReturned =>
       \A k \in CallsOf("lines") :
         /\ CurrentPage(k) <= Len(pageList)
         /\ \E n \in 1..Len(pageList[CurrentPage(k)]) :
              pageList[CurrentPage(k)][n] = pdf[k].piece
  /\ pc = "render" => CallsOf("save") = {}
  /\ (pc = "done" /\ Len(pageList) >= 1) =>
       /\ Cardinality(CallsOf("addPage")) = Len(pageList) - 1
       /\ CallsOf("save") = { Len(pdf) }
       /\ \A i \in Pieces : \E k \in CallsOf("lines") : pdf[k].piece = i

C6_Witness ==
  /\ pc = "done"
  /\ Len(pageList) >= 2
  /\ Len(pageList[1]) >= 2
  /\ Cardinality(CallsOf("addPage")) >= 1

\* the number of render(pen) calls the walk of c's tree makes
RECURSIVE TreeSize(_, _), TreeSizes(_, _, _)
TreeSizes(heap, subs, m) ==
  IF m = 0 THEN 0 ELSE TreeSizes(heap, subs, m - 1) + TreeSize(heap, subs[m])

TreeSize(heap, c) ==
  1 + TreeSizes(heap, heap[c].subComponents, Len(heap[c].subComponents))

\* calls is a pre-order walk of root's tree: it starts with root under
\* xform.compose(root's transform), and the m-th child of the component of
\* any call comes right after the walks of the children before it, under the
\* parent's transform composed with the child's own
PreOrderWalk(calls, heap, xform, root) ==
  /\ Len(calls) = TreeSize(heap, root)
  /\ calls[1].comp = root
  /\ calls[1].xform = Compose(xform, heap[root].positionXform)
  /\ \A k \in 1..Len(calls) :
       LET subs == heap[calls[k].comp].subComponents
       IN \A m \in 1..Len(subs) :
            LET at == k + 1 + TreeSizes(heap, subs, m - 1)
            IN /\ at <= Len(calls)
               /\ calls[at].op = "lines"
               /\ calls[at].comp = subs[m]
               /\ calls[at].xform =
                    Compose(calls[k].xform, heap[subs[m]].positionXform)
               \* the child's origin is drawn where the parent's transform
               \* takes the child's position
               /\ ApplyToPoint(calls[at].xform, <<0, 0>>) =
                    ApplyToPoint(calls[k].xform,
                                 << heap[subs[m]].positionXform[1][3],
                                    heap[subs[m]].positionXform[2][3] >>)

\* C7: the calls render() makes for one piece are a pre-order walk of the
\* tree of the piece's component, the children in the order they were added,
\* each component drawn under parentTransform.compose(own position
\* transform), the root's position transform being the page shift
\* Translate(piece position) and its parent transform the master transform.
C7_PreOrderRender ==
  [][(pc = "render" /\ pieceIdx' = pieceIdx + 1) =>
       LET piece == pageList[pageIdx][pieceIdx']
           root == pieceList[piece].component
           shift == Translate(pieceList[piece].position[1], pieceList[piece].position[2])
       IN /\ comps'[root].positionXform = shift
          /\ PreOrderWalk(SubSeq(pdf', Len(pdf) + 1, Len(pdf')), comps', masterXform, root)
          /\ pdf'[Len(pdf) + 1].xform = Compose(masterXform, shift)
          /\ ApplyToPoint(pdf'[Len(pdf) + 1].xform, <<0, 0>>) =
               ApplyToPoint(masterXform, pieceList[piece].position)]_vars

\* a piece whose root has two children, the first with a child of its own,
\* has been drawn
C7_Witness ==
  /\ pc = "done"
  /\ \E i \in Pieces :
       LET root == pieceList[i].component
           subs == comps[root].subComponents
       IN /\ Len(subs) >= 2
          /\ Len(comps[subs[1]].subComponents) >= 1
          /\ Cardinality({ k \in CallsOf("lines") : pdf[k].piece = i }) >= 4

(***************************************************************************)
(* Properties of Measurement.                                              *)
(***************************************************************************)
\* the methods whose operand is a Measurement
TakesMeasurement ==
  { "plus", "minus", "dividedBy", "greaterThan", "greaterThanOrEqualTo",
    "lessThan", "lessThanOrEqualTo", "equalTo", "notEqualTo" }

\* C8: plus, minus, dividedBy and the six comparisons throw when the operand
\* is a Measurement of the other reference frame than the receiver's, and so
\* does new Measurement(frame, m) for a Measurement m of the other frame.
C8_CrossFrameFails ==
  /\ ( /\ method \in TakesMeasurement
       /\ args[1].kind = "Measurement"
       /\ args[1].frame # recv.frame )
     => result.kind = "Error"
  /\ ( /\ method = "new Measurement"
       /\ args[1].kind = "Measurement"
       /\ args[1].frame # recv.text )
     => result.kind = "Error"

\* a non-zero world length was divided by a non-zero printed length
C8_Witness ==
  /\ method = "dividedBy"
  /\ recv.frame = WORLD /\ recv.value # Zero
  /\ args[1].kind = "Measurement"
  /\ args[1].frame = PRINTED /\ args[1].value # Zero
  /\ result.kind = "Error"

\* C9 as stated: plus and minus throw for every bare-number operand, and a
\* call given a bare number returns only if it is times or dividedBy.
C9_BareNumberNeverAdded ==
  (method # "none" /\ args[1].kind = "number")
  => /\ method \in { "plus", "minus" } => result.kind = "Error"
     /\ result.kind # "Error" => method \in { "times", "dividedBy" }

\* C9 amended: for a bare number other than 0, plus and minus throw and the
\* call returns exactly when it is times or dividedBy; plus(0) and minus(0)
\* return a Measurement equal to the receiver.
C9_NonZeroBareNumber ==
  (method # "none" /\ args[1].kind = "number")
  => /\ args[1].value # Zero
        => (result.kind # "Error" <=> method \in { "times", "dividedBy" })
     /\ (args[1].value = Zero /\ method \in { "plus", "minus" })
        => result = recv

\* a non-zero bare number was added to a Measurement
C9_Witness ==
  /\ method = "plus"
  /\ args[1].kind = "number" /\ args[1].value # Zero
  /\ result.kind = "Error"

(***************************************************************************)
(* Properties of MeasurementPair.                                          *)
(***************************************************************************)
\* receiver kind, operand kind and result kind of the sums that are allowed
C10_Sums ==
  { << POINT, VECTOR, POINT >>, << VECTOR, VECTOR, VECTOR >> }

\* ... and of the differences that are allowed
C10_Differences ==
  { << POINT, POINT, VECTOR >>, << POINT, VECTOR, POINT >>,
    << VECTOR, VECTOR, VECTOR >> }

C11_Again(arguments) ==
  IF method = "plus" THEN PairPlus(recv, arguments) ELSE PairMinus(recv, arguments)

\* plus or minus returned for a vector MeasurementPair operand
C11_VectorOperandAccepted ==
  /\ method \in { "plus", "minus" }
  /\ Len(args) = 1
  /\ args[1].kind = "MeasurementPair"
  /\ args[1].type = VECTOR
  /\ result.kind = "MeasurementPair"

ParsedSpec ==
  method = "new Measurement" /\ args[1].kind \in { "string", "Array" }

\* a character of the string is of none of the three classes
IllegalChar ==
  /\ args[1].kind = "string"
  /\ \E i \in 1..Len(args[1].text) :
       args[1].text[i] \notin NumberChars \cup UnitChars \cup WhiteChars

\* the tokens of the spec: of a string as _tokenize splits it, of a list
\* its items
TokenStream ==
  IF args[1].kind = "Array" THEN args[1].items
  ELSE IF IllegalChar THEN << >>
  ELSE Tokenize(args[1].text).items

IsNumberToken(token) ==
  token.kind = "number" \/ Matches(token, NumberChars)

IsUnitToken(token) ==
  Matches(token, UnitChars) /\ ~Matches(token, NumberChars)

OddTokens == ~IllegalChar /\ Len(TokenStream) % 2 = 1

OutOfOrder ==
  \E i \in 1..Len(TokenStream) :
    IF i % 2 = 1
    THEN ~IsNumberToken(TokenStream[i])
    ELSE ~IsUnitToken(TokenStream[i])

UnknownUnit ==
  \E i \in 1..Len(TokenStream) :
    /\ i % 2 = 0
    /\ IsUnitToken(TokenStream[i])
    /\ Unit(TokenStream[i].text).kind = "Error"

\* C12 as stated: the constructor throws for a string or list with an odd
\* number of tokens, with a character of no class, with tokens out of the
\* number-then-unit order, or with a unit of neither table.
C12_ParseErrors ==
  (ParsedSpec /\ (OddTokens \/ IllegalChar \/ OutOfOrder \/ UnknownUnit))
  => result.kind = "Error"

\* C12 amended: the same, except that the string "0", whose one token is an
\* odd number of tokens, is accepted (it is never tokenized).
C12_ParseErrorsButZero ==
  ( /\ ParsedSpec
    /\ \/ OddTokens /\ args[1] # String(<< "0" >>)
       \/ IllegalChar
       \/ OutOfOrder
       \/ UnknownUnit )
  => result.kind = "Error"

\* a string of three tokens in the right order, with a known unit, failed
C12_Witness ==
  /\ ParsedSpec
  /\ args[1].kind = "string"
  /\ Len(TokenStream) = 3
  /\ ~OutOfOrder /\ ~UnknownUnit
  /\ result.kind = "Error"

\* the sum of number times factor over the pairs of a well-formed stream,
\* taken from the last pair backwards
RECURSIVE SumOfPairs(_)
SumOfPairs(tokens) ==
  IF tokens = << >> THEN Zero
  ELSE LET n == Len(tokens)
           number == IF tokens[n - 1].kind = "number"
                     THEN tokens[n - 1].value
                     ELSE ToNumber(tokens[n - 1].text)
       IN  RatPlus(SumOfPairs(SubSeq(tokens, 1, n - 2)),
                   RatTimes(number, Unit(tokens[n].text).value))

\* the spec is k >= 1 pairs of a number and a known unit
WellFormedPairs ==
  /\ ParsedSpec
  /\ ~IllegalChar /\ ~OddTokens /\ ~OutOfOrder /\ ~UnknownUnit
  /\ TokenStream # << >>
  /\ \A i \in 1..Len(TokenStream) :
       (i % 2 = 1 /\ TokenStream[i].kind = "string")
       => ToNumber(TokenStream[i].text) # NaN

\* C13: a spec of k (number, unit) pairs, string or flat list, constructs
\* the Measurement of the requested frame whose value is the sum over the
\* pairs of number times the unit's factor.
C13_SumOfPairs ==
  WellFormedPairs
  => result = Measurement(recv.text, SumOfPairs(TokenStream))

\* "1m1cm", or the like, gave 1.01 m: two pairs of different units in a
\* string
C13_Witness ==
  /\ WellFormedPairs
  /\ args[1].kind = "string"
  /\ Len(TokenStream) = 4
  /\ TokenStream[2] # TokenStream[4]
  /\ result.kind = "Measurement"
  /\ result.value = Rat(101, 100)

\* the string without its i-th character
WithoutChar(chars, i) ==
  SubSeq(chars, 1, i - 1) \o SubSeq(chars, i + 1, Len(chars))

\* the string with a blank after its i-th character
WithBlankAfter(chars, i) ==
  SubSeq(chars, 1, i) \o << " " >> \o SubSeq(chars, i + 1, Len(chars))

\* the i-th character is a lone blank between two tokens
BlankBetweenTokens(chars, i) ==
  /\ 1 < i /\ i < Len(chars)
  /\ chars[i] \in WhiteChars
  /\ chars[i - 1] \notin WhiteChars
  /\ chars[i + 1] \notin WhiteChars

\* a number token ends at the i-th character and a unit token starts after
\* it, or a unit token ends there and a number token starts
TokenBoundary(chars, i) ==
  /\ 1 <= i /\ i < Len(chars)
  /\ \/ chars[i] \in NumberChars /\ chars[i + 1] \in UnitChars \ NumberChars
     \/ chars[i] \in UnitChars \ NumberChars /\ chars[i + 1] \in NumberChars

\* C14: an accepted string gives the same Measurement with a blank between
\* two of its tokens removed, and with a blank put between a number and a
\* unit or between a unit and the next number.  (In an accepted string the
\* tokens alternate, so every blank between tokens is of these two kinds.)
C14_WhitespaceInsensitive ==
  (ParsedSpec /\ args[1].kind = "string" /\ result.kind = "Measurement")
  => \A i \in 1..Len(args[1].text) :
       /\ BlankBetweenTokens(args[1].text, i)
          => NewMeasurement(recv.text, String(WithoutChar(args[1].text, i)))
               = result
       /\ TokenBoundary(args[1].text, i)
          => NewMeasurement(recv.text, String(WithBlankAfter(args[1].text, i)))
               = result

\* C15: the number 0 and the string "0" construct the zero Measurement of
\* the requested frame; the empty string and the empty list throw.
C15_ZeroLiteral ==
  method = "new Measurement"
  => /\ args[1] \in { Number(Zero), String(<< "0" >>) }
        => result = Measurement(recv.text, Zero)
     /\ args[1] \in { String(<< >>), Array(<< >>) }
        => result.kind = "Error"

\* the string "0" gave the zero of the printed frame
C15_Witness ==
  /\ method = "new Measurement"
  /\ args[1] = String(<< "0" >>)
  /\ recv.text = PRINTED
  /\ result = Measurement(PRINTED, Zero)

\* C16: dividedBy a non-zero number d returns the receiver's frame with the
\* value divided by d; dividedBy a Measurement of the same frame and
\* non-zero value returns the ratio of the values as a number; dividedBy the
\* number 0 or a Measurement of value 0 throws.
C16_DividedBy ==
  method = "dividedBy"
  => /\ (args[1].kind = "number" /\ args[1].value # Zero)
        => /\ result.kind = "Measurement"
           /\ result.frame = recv.frame
           /\ RatTimes(result.value, args[1].value) = recv.value
     /\ ( /\ args[1].kind = "Measurement"
          /\ args[1].frame = recv.frame
          /\ args[1].value # Zero )
        => /\ result.kind = "number"
           /\ RatTimes(result.value, args[1].value) = recv.value
     /\ ( /\ args[1].kind \in { "number", "Measurement" }
          /\ args[1].value = Zero )
        => result.kind = "Error"

\* a length was divided by a different length of its frame
C16_Witness ==
  /\ method = "dividedBy"
  /\ args[1].kind = "Measurement"
  /\ args[1].frame = recv.frame
  /\ args[1].value \notin { Zero, recv.value }
  /\ recv.value # Zero
  /\ result.kind = "number"

(***************************************************************************)
(* Properties of AffineTransformation.                                     *)
(***************************************************************************)
\* C17: every transformation the constructors and compose produce has the
\* last row [0, 0, 1].
C17_LastRow ==
  IsXform(composed) => composed[3] = << 0, 0, 1 >>

\* a translation, a rotation and a resize were composed
C17_Witness ==
  /\ IsXform(composed)
  /\ Len(factors) >= 3
  /\ { "Translate", "Rotate", "Resize" }
       \subseteq { factors[i].class : i \in 1..Len(factors) }

\* the entry (i, j) of the product of 3x3 matrices: row i of a times
\* column j of b
RowTimesColumn(a, b, i, j) ==
  LET RECURSIVE upTo(_)
      upTo(k) == IF k = 0 THEN 0 ELSE upTo(k - 1) + a[i][k] * b[k][j]
  IN  upTo(3)

\* the product of the matrices of these constructions, in their order
RECURSIVE ProductOf(_)
ProductOf(cs) ==
  IF Len(cs) = 1
  THEN New(cs[1])
  ELSE LET rest == ProductOf(Tail(cs))
       IN  [i \in 1..3 |-> [j \in 1..3 |->
              RowTimesColumn(New(cs[1]), rest, i, j)]]

\* C18: A.compose(B) has the matrix A x B, in that order, and takes a point
\* where A takes the point B takes it to: with A the construction composed
\* last and B what was composed before.
C18_ComposeOrder ==
  (IsXform(composed) /\ Len(factors) >= 2)
  => /\ composed = ProductOf(factors)
     /\ ApplyToPoint(composed, pt) = img

\* a resize was composed with a translation, which do not commute, and
\* applied to a point
C18_Witness ==
  /\ IsXform(composed)
  /\ Len(factors) = 2
  /\ factors[1].class = "Resize"
  /\ factors[2].class = "Translate"
  /\ pt = << 3, 5 >>
  /\ img = << 8, 14 >>

\* every construction composed is Rotate(90)
QuarterTurnsOnly ==
  \A i \in 1..Len(factors) :
    factors[i] = [class |-> "Rotate", params |-> << ROT90 >>]

\* C19: Rotate(90) composed with itself twice is Rotate(180), three times
\* Rotate(270), four times the identity matrix; applied four times in
\* succession to a point it gives the point back.
C19_QuarterTurns ==
  QuarterTurnsOnly
  => /\ Len(factors) = 2 => composed = Rotate(ROT180)
     /\ Len(factors) = 3 => composed = Rotate(ROT270)
     /\ Len(factors) = 4 => (composed = Identity /\ img = pt)

\* four quarter turns were applied to (3, 5)
C19_Witness ==
  /\ QuarterTurnsOnly
  /\ Len(factors) = 4
  /\ pt = << 3, 5 >>
  /\ img = pt

\* C20: Rotate(angle) is constructed for 90, 180 and 270, where it takes
\* (x, y) to (-y, x), (-x, -y) and (y, -x); for every other angle the
\* constructor throws.
C20_RotateAngles ==
  (factors # << >> /\ factors[1].class = "Rotate")
  => LET which == factors[1].params[1]
     IN  IF which \in { 90, 180, 270 }
         THEN /\ IsXform(composed)
              /\ Len(factors) = 1
                 => img = CASE which = 90 -> << -pt[2], pt[1] >>
                            [] which = 180 -> << -pt[1], -pt[2] >>
                            [] which = 270 -> << pt[2], -pt[1] >>
         ELSE composed = XformThrew

\* Rotate(90) took (3, 5) to (-5, 3)
C20_Witness ==
  /\ factors = << [class |-> "Rotate", params |-> << ROT90 >>] >>
  /\ pt = << 3, 5 >>
  /\ img = << -5, 3 >>

(***************************************************************************)
(* Properties of the Kit's options.                                        *)
(***************************************************************************)
OptionNames == { "format", "scale", "pdfFileName", "color" }

\* what the constructor's sources give for an option name: the value of
\* getDefaultOptions(), else the built-in default, else nothing
ConstructedValue(optionName) ==
  IF optionName \in DOMAIN defaultOptions THEN defaultOptions[optionName]
  ELSE IF optionName \in DOMAIN BuiltInOptions THEN BuiltInOptions[optionName]
  ELSE "undefined"

\* the generate() calls so far that passed a value for an option name
CallsNaming(optionName) ==
  { i \in 1..Len(optionCalls) : optionName \in DOMAIN optionCalls[i] }

Comparisons ==
  { "greaterThan", "greaterThanOrEqualTo", "lessThan", "lessThanOrEqualTo",
    "equalTo", "notEqualTo" }

\* C22: no operation of Measurement, MeasurementPair or
\* AffineTransformation (plus, minus, times, dividedBy, the comparisons,
\* length, toWorld, toPrinted, applyToPoint, compose, and the four
\* operations of pairs) changes an object that existed before the call, receiver and
\* operands included, and an object it returns did not exist before the
\* call; so a Measurement shared by several pairs keeps the value it was
\* constructed with.
C22_NeverMutated ==
  [][/\ Len(objects') >= Len(objects)
     /\ \A a \in DOMAIN objects : objects'[a] = objects[a]
     /\ method' \notin Comparisons /\ result'.kind = "Reference"
          => /\ result'.at \notin DOMAIN objects
             /\ result'.at \in DOMAIN objects']_vars

\* world 3 m, which a point and a vector share, was added to the sum of it
\* and world 4 m: the result is a third Measurement of 10 m
C22_Witness ==
  /\ method = "plus"
  /\ result.kind = "Reference"
  /\ result.at = Len(InitialObjects) + 2
  /\ objects[result.at] = Measurement(WORLD, Rat(10, 1))
  /\ objects[result.at - 1] = Measurement(WORLD, Rat(7, 1))
  /\ Deref(objects, 4) = Deref(InitialObjects, 4)
  /\ Deref(objects, 5) = Deref(InitialObjects, 5)

\* C23: Kit.render leaves the piece list and every page as they are (no
\* entry added, removed or moved, no piece's page or position changed), and
\* from the moment pack has written a piece's position to the end of the
\* generate run that piece keeps that position.
C23_RenderReadOnly ==
  [][/\ pc = "render" => pieceList' = pieceList /\ pageList' = pageList
     /\ pc \in { "pack", "render" } =>
          \A i \in DOMAIN pieceList :
            pieceList[i].position # NoPosition =>
              /\ i \in DOMAIN pieceList'
              /\ pieceList'[i].position = pieceList[i].position]_vars

\* render is drawing the second page of three pieces that pack positioned
\* in two iterations
C23_Witness ==
  /\ pc = "render"
  /\ pageIdx = 2
  /\ pieceIdx = 1
  /\ Len(pieceList) = 3
  /\ \A i \in DOMAIN pieceList : pieceList[i].position # NoPosition
  /\ \E call \in DOMAIN pdf : pdf[call].op = "lines" /\ pdf[call].piece = pageList[2][1]

\* C24: while pack runs and after it, the page list changes only by a page
\* appended at its end (the pages already in it keeping their place and
\* their pieces), and every page in the list holds at least one piece, all
\* its pieces having a position.
C24_PagesAppendOnly ==
  [][/\ pc \in { "pack", "render" } =>
          \/ pageList' = pageList
          \/ /\ Len(pageList') = Len(pageList) + 1
             /\ SubSeq(pageList', 1, Len(pageList)) = pageList
     /\ pc' \in { "pack", "render", "done" } =>
          \A k \in DOMAIN pageList' :
            /\ Len(pageList'[k]) >= 1
            /\ \A j \in DOMAIN pageList'[k] :
                 pieceList'[pageList'[k][j]].position # NoPosition]_vars

\* pack is still running with two pages appended, the first holding two
\* pieces
C24_Witness ==
  /\ pc = "pack"
  /\ Len(notYetPacked) > 0
  /\ Len(pageList) = 2
  /\ Len(pageList[1]) = 2

\* the area of a component's extent: bare width times bare height
ExtentArea(c) == comps[c].extent[1] * comps[c].extent[2]

\* C26: every BinPack that pack has run was given the page's bare width and
\* height as its bin and a comparator that puts a candidate of larger area
\* before one of smaller area and ranks candidates of equal area alike, the
\* area of a piece being the product of the bare width and the bare height
\* of its component's extent.
C26_BinConfigured ==
  bp.called =>
    /\ bp.binWidth = pageSize[1]
    /\ bp.binHeight = pageSize[2]
    /\ DOMAIN bp.sort = DOMAIN bp.added
    /\ \A a, b \in DOMAIN bp.added :
         LET areaA == ExtentArea(pieceList[bp.added[a]].component)
             areaB == ExtentArea(pieceList[bp.added[b]].component)
         IN  /\ areaA > areaB => bp.sort[a][b] < 0
             /\ areaA = areaB => bp.sort[a][b] = 0
             /\ areaA < areaB => bp.sort[a][b] > 0

\* a BinPack was given three candidates, two of the same area and one of a
\* larger area that was added last
C26_Witness ==
  /\ bp.called
  /\ Len(bp.added) = 3
  /\ bp.sort[1][2] = 0
  /\ bp.sort[3][1] < 0
  /\ Len(bp.positioned) = 2

\* 1000 * r for the scale option in force
Ratio1000 ==
  (1000 * ScaleRatio(options.scale)[1]) \div ScaleRatio(options.scale)[2]

\* C27: once generate has built it, the master transform takes a world
\* point (x, y) to (1000 r x, 1000 r (H - y)), r being the scale ratio and H
\* the page height in world meters, so the world origin goes to (0, 1000 r H),
\* the lower-left corner of the page, and y is inverted; and the outline of
\* a piece placed at (px, py) was drawn with a transform that takes a local
\* point (x, y) to the master transform's image of (px + x, py + y).
C27_MasterTransform ==
  pc # "idle" =>
    /\ \A p \in Points :
         ApplyToPoint(masterXform, p)
           = << Ratio1000 * p[1], Ratio1000 * (pageSize[2] - p[2]) >>
    /\ \A call \in DOMAIN pdf :
         /\ pdf[call].op = "lines"
         /\ pdf[call].comp = pieceList[pdf[call].piece].component
         => \A p \in Points :
              LET placed == pieceList[pdf[call].piece].position
              IN  ApplyToPoint(pdf[call].xform, p)
                    = ApplyToPoint(masterXform,
                                   << placed[1] + p[1], placed[2] + p[2] >>)

\* under the scale 1:10 on a4 paper a piece placed at (1, 0) was drawn: its
\* local origin is at (100, 200)
C27_Witness ==
  /\ options.scale = "1:10"
  /\ options.format = "a4"
  /\ \E call \in DOMAIN pdf :
       /\ pdf[call].op = "lines"
       /\ pdf[call].comp = pieceList[pdf[call].piece].component
       /\ pieceList[pdf[call].piece].position = << 1, 0 >>
       /\ ApplyToPoint(pdf[call].xform, << 0, 0 >>) = << 100, 200 >>

\* the components _renderTreeNodes reaches from component c
RECURSIVE Subtree(_, _)
Subtree(heap, c) ==
  { c } \cup UNION { Subtree(heap, heap[c].subComponents[k]) :
                       k \in DOMAIN heap[c].subComponents }

\* C25: when render draws a piece, every child reached under a parent in
\* the piece's tree still has the relative transform
\* Translate(position) it received from that parent's
\* addSubComponent(child, position), whatever addSubComponent, addPiece,
\* pack and render did in between.
C25_RelativeTransformKept ==
  [][pc = "render" /\ pieceIdx' = pieceIdx + 1 =>
       LET root == pieceList[pageList[pageIdx][pieceIdx + 1]].component
       IN  \A parent \in Subtree(comps', root) :
             \A k \in DOMAIN comps'[parent].subComponents :
               LET child == comps'[parent].subComponents[k]
                   position == PositionIn(parent, child)
               IN  comps'[child].positionXform
                     = Translate(position[1], position[2])]_vars

\* C28: a Measurement constructed from a string or a list has a value that
\* is a number: a number token that is no signed decimal (such as "1-2")
\* makes the constructor throw.
C28_ValueDefined ==
  ( /\ ParsedSpec
    /\ result.kind = "Measurement" )
  => result.value # NaN

\* a generate() call starts: it was not running, and now build() is
GenerateStarts == pc \in { "idle", "done", "threw" } /\ pc' = "build"

\* every page holds pieces of the piece list, each piece being on one page
PagesOfThePieces(pieces, pages) ==
  /\ \A k \in DOMAIN pages : \A j \in DOMAIN pages[k] : pages[k][j] \in DOMAIN pieces
  /\ \A i \in DOMAIN pieces :
       \E k \in DOMAIN pages : \E j \in DOMAIN pages[k] : pages[k][j] = i

\* C29: every generate() call starts from an empty piece list and an empty
\* page list, and when it has returned the pages are pages of the pieces of
\* its own build.
C29_StartsEmpty ==
  [][/\ GenerateStarts => pieceList' = << >> /\ pageList' = << >>
     /\ pc' = "done" => PagesOfThePieces(pieceList', pageList')]_vars

\* C29 amended: every generate() call empties the piece list before build()
\* and the page list once build() has returned, before pack(); build() only
\* appends pieces, one per call; and when generate() has returned the pages
\* are pages of the pieces of its own build.  Until build() returns the page
\* list is the one the earlier call left.
C29_EmptiedBeforeUse ==
  [][/\ GenerateStarts => pieceList' = << >> /\ pageList' = pageList
     /\ pc = "build" =>
          \/ pieceList' = pieceList
          \/ \E c \in 1..NumComps : pieceList' = Append(pieceList, Piece(c))
     /\ pc = "build" /\ pc' = "pack" => pageList' = << >>
     /\ pc = "build" /\ pc' # "pack" => pageList' = pageList
     /\ pc' = "done" => PagesOfThePieces(pieceList', pageList')]_vars

\* the second generate() call is in build(), one piece registered, and the
\* page list still holds the two pages of the first call
C29_Witness ==
  /\ generateCalls = 0
  /\ pc = "build"
  /\ Len(pieceList) = 1
  /\ Len(pageList) = 2

\* C30: addPiece(comp) on a component whose getExtent() raises (the base
\* class's does) raises and leaves the piece list as it was; otherwise it
\* appends exactly one piece, which wraps comp and has no position, after
\* the pieces already in the list; and nothing else changes the piece list
\* while build() runs.
C30_AddPieceAllOrNothing ==
  [][/\ \A c \in 1..NumComps :
          AddPiece(c) =>
            IF comps[c].extent = NoExtent
            THEN pc' = "threw" /\ pieceList' = pieceList
            ELSE /\ pc' = "build"
                 /\ Len(pieceList') = Len(pieceList) + 1
                 /\ SubSeq(pieceList', 1, Len(pieceList)) = pieceList
                 /\ pieceList'[Len(pieceList')].component = c
                 /\ pieceList'[Len(pieceList')].position = NoPosition
     /\ pc = "build" /\ pieceList' # pieceList =>
          \E c \in 1..NumComps : AddPiece(c) /\ comps[c].extent # NoExtent
     /\ pc = "build" /\ pc' = "threw" => pieceList' = pieceList]_vars

\* build() raised after two pieces were appended, which are still the
\* piece list and have no position
C30_Witness ==
  /\ pc = "threw"
  /\ phases = << "build" >>
  /\ Len(pieceList) = 2
  /\ pieceList[1].component # pieceList[2].component
  /\ \A i \in DOMAIN pieceList : pieceList[i].position = NoPosition

====
